---- MODULE Spec2Model ----
(***************************************************************************)
(* A model of the integrated PC-parts price search (Compuzone + Guidecom): *)
(* the Product record (models.py), the Streamlit orchestration (app.py),   *)
(* the site parsers (compuzone.py, guidecom.py) and the integrated         *)
(* searcher (total.py).                                                    *)
(*                                                                         *)
(* Text is modelled as a sequence of one-character strings, so that the    *)
(* string operations of the source (strip, split, lower, regex scans) are  *)
(* computed character by character.  A Hangul syllable is one character,   *)
(* written here in romanised form ("won", "pum", "jeol", ...): such a      *)
(* character is neither a digit, an ASCII letter nor whitespace.           *)
(***************************************************************************)
EXTENDS Integers, Sequences, FiniteSets, TLC

VARIABLES
    \* models.py: one Product construction
    args,       \* the arguments of the Product(...) call
    built,      \* "none" before the call, then "ok" or "ValueError"
    product,    \* the fields of the constructed Product (when built = "ok")
    \* app.py / total.py: the product search over the site parsers
    caller,     \* "app" (app.py fan-out), "integrated" (search_all_sites) or "none"
    orch,       \* the orchestrator's position
    worker,     \* per site: the state of its get_unique_products call
    ret,        \* per site: the list its call returned
    siteProducts,   \* per site: the orchestrator's local result list
    products,   \* the merged list (session_state.products / all_products)
    \* compuzone.py / guidecom.py: one call of a public parser method
    entry,      \* the public method called ("none": no call)
    stack,      \* the frames of the call: <<method, position>>, innermost last
    unwinding,  \* 0: running normally; h > 0: an exception is looking for the
                \* h-th enclosing try of the innermost frame's position
    outcome,    \* "running", then "returned" (a list) or "raised"
    failures,   \* how many internal steps have raised so far
    \* total.py: one call of IntegratedSearcher.group_similar_products
    gThreshold, \* similarity_threshold, a rational <<numerator, denominator>>
    gGiven,     \* the products list as it was when the call was made
    gProducts,  \* the caller's products list object, as it is now
    ungrouped,  \* the local list ungrouped
    groups,     \* the local list groups
    gPc,        \* "idle", "loop" (at the while test) or "done" (returned)
    \* app.py: the manufacturer search handler (search_button)
    keyword,    \* st.session_state.keyword
    mfrs,       \* site -> compuzone_mfrs / guidecom_mfrs
    pending,    \* what the merge loop has still to visit
    all_mfrs,   \* the dict all_mfrs, its entries in insertion order
    manufacturers,          \* st.session_state.manufacturers
    selected_manufacturers, \* st.session_state.selected_manufacturers (its keys)
    mPc,        \* "idle", "await1", "await2", "merge" or "done"
    \* total.py: one call of IntegratedSearcher.get_all_brands
    site_brands,\* site -> danawa_brands / compuzone_brands / guidecom_brands
    all_brands, \* the dict all_brands, its items in insertion order
    brands,     \* the list returned
    bPc,        \* 1..3: the site queried next; 4: at the sort; 5: returned
    \* compuzone.py / models.py: specification de-duplication
    dedup,      \* "smart" (_smart_deduplicate_specs) or "clean"
                \* (_clean_specifications); "none": not in use
    specs_text, \* the text given to the first application
    once,       \* the result of the first application
    twice,      \* the result of applying the function to that result
    applied,     \* how many applications have been made
    \* app.py: the result table (section 3, Display Results)
    shown,      \* st.session_state.products when the table is rendered
    min_price,  \* min_price: <<>> for None, else <<n>>
    sorted_products,    \* sorted(products, key=extract_price)
    rows,       \* data: per row the product and its is_lowest
    vPc,         \* "idle", "min", "sort", "rows" or "done"
    \* compuzone.py / guidecom.py: one call of a parser's search_products
    qSite,      \* the parser called: "compuzone" or "guidecom"; "none": not in use
    qKeyword,   \* keyword (guidecom: also self._current_search_keyword)
    maker_codes,\* maker_codes
    limit,      \* limit
    strategy,   \* compuzone: index of the search strategy tried next
    product_items,  \* the rows of the response the result was parsed from
    all_products,   \* compuzone: all_products of search_products
    found,      \* the list returned
    qPc,         \* "idle", "start", "strategies", "finalize" or "done"
    \* app.py: the manufacturer form and the product search handler
    offered,    \* st.session_state.manufacturers when the form is shown
    checked,    \* the i with st.session_state[f"mfr_{i}"] true
    aKeyword,   \* st.session_state.keyword
    selected_codes, \* selected_codes
    compuzone_products, \* <<>> until future_compuzone.result() is read
    guidecom_products,  \* guidecom: all_results, then guidecom_products
    bucket,     \* guidecom get_unique_products: the search bucket next, 1..3
    returned,   \* the sites whose future has completed
    searching_products, \* st.session_state.searching_products
    session_products,   \* st.session_state.products
    aPc,         \* "idle", "form", "search" or "done"
    \* compuzone.py: one call of _parse_product_options_filtered
    capacity_filter,    \* capacity_filter
    option_items,       \* option_items: per option its capacity and its text
    option_index,       \* how many options the loop has visited
    option_products,    \* products, by the option each was parsed from
    cPc,         \* "idle", "loop" or "done" (returned)
    \* compuzone.py / guidecom.py: one call of a parser's get_search_options
    oSite,      \* the parser called: "compuzone" or "guidecom"; "none": not in use
    oKeyword,   \* keyword
    network_down,   \* TRUE: every request of the call fails
    debug,      \* guidecom: self.debug
    page_rows,  \* what the last request returned, and to which step:
                \* checkboxes, product names or rows
    sample_names,   \* guidecom: sample_names, filled in debug mode only
    search_options, \* the list returned
    oPc,         \* "idle", "done", or the step of the call that is next
    \* two GuidecomParser instances that differ in self.debug only
    dKeyword,   \* the keyword both are called with
    dCodes,     \* maker_codes both are called with
    dLimit,     \* limit of the search_products call
    site_pages, \* per sort order, the names of the rows the site answers with
    \* per instance: debug, how many methods were called, what each
    \* returned, the lines printed, sample_names
    instances,
    \* guidecom.py get_unique_products, bucket by bucket
    bucket_no,       \* the search bucket that is searched next
    bucket_items,    \* per bucket searched, the rows the site answered with
    contributed,     \* per bucket searched, category_added
    unique_results,  \* all_results, by name; final_results at the end
    uPc,
    \* the HTTP requests of one search_products call
    rSite,       \* the parser that is called
    rKeyword,    \* keyword
    rCodes,      \* maker_codes
    rLimit,      \* limit
    request_log, \* the requests issued so far: url, strategy, ok, rows
    rPc,         \* the request that is next, or "done"
    rMethod,     \* compuzone: strategy_index; guidecom: the method tried
    rAttempt,    \* guidecom: the category tried, or attempt + 1
    raised,      \* guidecom: _make_request raised after its last attempt
    rReturned,    \* what search_products returned
    \* app.py: the two fan-outs of a session, one script run after the other
    fan_out,       \* "manufacturers", "products", or "none"
    main_pc,       \* the statement the script thread is at
    task_pc,       \* per submitted call: unused, submitted, running, returned, raised
    task_requests, \* per submitted call, the requests it has sent
    parser_fields, \* per parser instance: session, last_request_time, keyword, users
    future_result, \* per future, the result set by the worker, and who set it
    site_lists,    \* compuzone_* and guidecom_* of the script thread
    session_lists,  \* st.session_state.manufacturers and .products
    \* one batch of rows parsed by a parser, row by row
    row_site,      \* the parser
    batch,         \* the rows of the page: the texts of their elements
    batch_limit,   \* limit
    row_no,        \* the row that is parsed next
    row_products,  \* per row parsed, the products it gave
    row_pc,        \* "idle", "rows", "done" or "raised"
    row_returned,   \* the list returned
    \* compuzone.py _extract_capacity_from_keyword, one call
    kw_text,      \* keyword
    kw_capacity,  \* what the call returned, <<>> for None
    kwPc,
    \* app.py: the script runs of one session
    ss,            \* st.session_state: keyword, manufacturers, products, searching_products
    ticked,        \* the mfr_<i> checkboxes that are ticked
    run_pc,        \* "idle" between two runs, else the section the run is at
    run_event,     \* the widget that started the run, or "rerun"
    run_started,   \* searching_products when the run started
    form_shown,    \* the manufacturer form is on the page
    site_queries,  \* the site queries issued by the run
    submitted_empty, \* the run handled a submit with nothing ticked
    waiting,       \* a rerun request that came in during the product search
    interrupts     \* runs stopped by a rerun request so far

productVars == <<args, built, product>>
fanVars == <<caller, orch, worker, ret, siteProducts, products>>
parserVars == <<entry, stack, unwinding, outcome, failures>>
groupVars == <<gThreshold, gGiven, gProducts, ungrouped, groups, gPc>>
mergeVars == <<keyword, mfrs, pending, all_mfrs, manufacturers,
               selected_manufacturers, mPc>>
brandVars == <<site_brands, all_brands, brands, bPc>>
dedupVars == <<dedup, specs_text, once, twice, applied>>

displayVars == <<shown, min_price, sorted_products, rows, vPc>>
searchVars == <<qSite, qKeyword, maker_codes, limit, strategy, product_items,
                all_products, found, qPc>>
selectVars == <<offered, checked, aKeyword, selected_codes,
                compuzone_products, guidecom_products, bucket, returned,
                searching_products, session_products, aPc>>
capacityVars == <<capacity_filter, option_items, option_index,
                  option_products, cPc>>
optionsVars == <<oSite, oKeyword, network_down, debug, page_rows, sample_names,
                 search_options, oPc>>
debugVars == <<dKeyword, dCodes, dLimit, site_pages, instances>>
bucketsVars == <<bucket_no, bucket_items, contributed, unique_results, uPc>>
requestsVars == <<rSite, rKeyword, rCodes, rLimit, request_log, rPc, rMethod,
                  rAttempt, raised, rReturned>>
workersVars == <<fan_out, main_pc, task_pc, task_requests, parser_fields,
                 future_result, site_lists, session_lists>>
rowsVars == <<row_site, batch, batch_limit, row_no, row_products, row_pc,
              row_returned>>
keywordVars == <<kw_text, kw_capacity, kwPc>>
sessionVars == <<ss, ticked, run_pc, run_event, run_started, form_shown,
                 site_queries, submitted_empty, waiting, interrupts>>
vars == <<productVars, fanVars, parserVars, groupVars, mergeVars, brandVars,
          dedupVars, displayVars, searchVars, selectVars, capacityVars,
          optionsVars, debugVars, bucketsVars, requestsVars, workersVars,
          rowsVars, keywordVars, sessionVars>>

\* What the actions of one part leave unchanged: the other parts.
notProduct == <<fanVars, parserVars, groupVars, mergeVars, brandVars,
                dedupVars, displayVars, searchVars, selectVars, capacityVars,
                optionsVars, debugVars, bucketsVars, requestsVars,
                workersVars, rowsVars, keywordVars, sessionVars>>
notFan == <<productVars, parserVars, groupVars, mergeVars, brandVars,
            dedupVars, displayVars, searchVars, selectVars, capacityVars,
            optionsVars, debugVars, bucketsVars, requestsVars, workersVars,
            rowsVars, keywordVars, sessionVars>>
notParser == <<productVars, fanVars, groupVars, mergeVars, brandVars,
               dedupVars, displayVars, searchVars, selectVars, capacityVars,
               optionsVars, debugVars, bucketsVars, requestsVars,
               workersVars, rowsVars, keywordVars, sessionVars>>
notGroup == <<productVars, fanVars, parserVars, mergeVars, brandVars,
              dedupVars, displayVars, searchVars, selectVars, capacityVars,
              optionsVars, debugVars, bucketsVars, requestsVars, workersVars,
              rowsVars, keywordVars, sessionVars>>
notMerge == <<productVars, fanVars, parserVars, groupVars, brandVars,
              dedupVars, displayVars, searchVars, selectVars, capacityVars,
              optionsVars, debugVars, bucketsVars, requestsVars, workersVars,
              rowsVars, keywordVars, sessionVars>>
notBrand == <<productVars, fanVars, parserVars, groupVars, mergeVars,
              dedupVars, displayVars, searchVars, selectVars, capacityVars,
              optionsVars, debugVars, bucketsVars, requestsVars, workersVars,
              rowsVars, keywordVars, sessionVars>>
notDedup == <<productVars, fanVars, parserVars, groupVars, mergeVars,
              brandVars, displayVars, searchVars, selectVars, capacityVars,
              optionsVars, debugVars, bucketsVars, requestsVars, workersVars,
              rowsVars, keywordVars, sessionVars>>
notDisplay == <<productVars, fanVars, parserVars, groupVars, mergeVars,
                brandVars, dedupVars, searchVars, selectVars, capacityVars,
                optionsVars, debugVars, bucketsVars, requestsVars,
                workersVars, rowsVars, keywordVars, sessionVars>>
notSearch == <<productVars, fanVars, parserVars, groupVars, mergeVars,
               brandVars, dedupVars, displayVars, selectVars, capacityVars,
               optionsVars, debugVars, bucketsVars, requestsVars,
               workersVars, rowsVars, keywordVars, sessionVars>>
notSelect == <<productVars, fanVars, parserVars, groupVars, mergeVars,
               brandVars, dedupVars, displayVars, searchVars, capacityVars,
               optionsVars, debugVars, bucketsVars, requestsVars,
               workersVars, rowsVars, keywordVars, sessionVars>>
notCapacity == <<productVars, fanVars, parserVars, groupVars, mergeVars,
                 brandVars, dedupVars, displayVars, searchVars, selectVars,
                 optionsVars, debugVars, bucketsVars, requestsVars,
                 workersVars, rowsVars, keywordVars, sessionVars>>
notOptions == <<productVars, fanVars, parserVars, groupVars, mergeVars,
                brandVars, dedupVars, displayVars, searchVars, selectVars,
                capacityVars, debugVars, bucketsVars, requestsVars,
                workersVars, rowsVars, keywordVars, sessionVars>>
notDebug == <<productVars, fanVars, parserVars, groupVars, mergeVars,
              brandVars, dedupVars, displayVars, searchVars, selectVars,
              capacityVars, optionsVars, bucketsVars, requestsVars,
              workersVars, rowsVars, keywordVars, sessionVars>>
notBuckets == <<productVars, fanVars, parserVars, groupVars, mergeVars,
                brandVars, dedupVars, displayVars, searchVars, selectVars,
                capacityVars, optionsVars, debugVars, requestsVars,
                workersVars, rowsVars, keywordVars, sessionVars>>
notRequests == <<productVars, fanVars, parserVars, groupVars, mergeVars,
                 brandVars, dedupVars, displayVars, searchVars, selectVars,
                 capacityVars, optionsVars, debugVars, bucketsVars,
                 workersVars, rowsVars, keywordVars, sessionVars>>
notWorkers == <<productVars, fanVars, parserVars, groupVars, mergeVars,
                brandVars, dedupVars, displayVars, searchVars, selectVars,
                capacityVars, optionsVars, debugVars, bucketsVars,
                requestsVars, rowsVars, keywordVars, sessionVars>>
notRows == <<productVars, fanVars, parserVars, groupVars, mergeVars,
             brandVars, dedupVars, displayVars, searchVars, selectVars,
             capacityVars, optionsVars, debugVars, bucketsVars, requestsVars,
             workersVars, keywordVars, sessionVars>>
notKeyword == <<productVars, fanVars, parserVars, groupVars, mergeVars,
                brandVars, dedupVars, displayVars, searchVars, selectVars,
                capacityVars, optionsVars, debugVars, bucketsVars,
                requestsVars, workersVars, rowsVars, sessionVars>>
notSession == <<productVars, fanVars, parserVars, groupVars, mergeVars,
                brandVars, dedupVars, displayVars, searchVars, selectVars,
                capacityVars, optionsVars, debugVars, bucketsVars,
                requestsVars, workersVars, rowsVars, keywordVars>>

----
(***************************************************************************)
(* Text helpers: Python str / re primitives used by the source.            *)
(***************************************************************************)

\* Characters matched by \s and removed by str.strip().
Whitespace == {" ", "\t", "\n"}

DigitChars == <<"0", "1", "2", "3", "4", "5", "6", "7", "8", "9">>

UpperChars == <<"A", "B", "C", "D", "E", "F", "G", "H", "I", "J", "K", "L", "M",
                "N", "O", "P", "Q", "R", "S", "T", "U", "V", "W", "X", "Y", "Z">>

LowerChars == <<"a", "b", "c", "d", "e", "f", "g", "h", "i", "j", "k", "l", "m",
                "n", "o", "p", "q", "r", "s", "t", "u", "v", "w", "x", "y", "z">>

Range(f) == {f[i] : i \in DOMAIN f}

IsDigit(c) == c \in Range(DigitChars)

DigitVal(c) == (CHOOSE i \in DOMAIN DigitChars : DigitChars[i] = c) - 1

\* str.lower() on one character.
LowerChar(c) ==
    IF c \in Range(UpperChars)
    THEN LowerChars[CHOOSE i \in DOMAIN UpperChars : UpperChars[i] = c]
    ELSE c

\* str.upper() on one character.
UpperChar(c) ==
    IF c \in Range(LowerChars)
    THEN UpperChars[CHOOSE i \in DOMAIN LowerChars : LowerChars[i] = c]
    ELSE c

Lower(s) == [i \in DOMAIN s |-> LowerChar(s[i])]

Upper(s) == [i \in DOMAIN s |-> UpperChar(s[i])]

\* s[from:] (1-based, inclusive).
Drop(s, from) == SubSeq(s, from, Len(s))

\* str.lstrip(): s from its first character that is not whitespace
LStrip(s) ==
    IF \A i \in DOMAIN s : s[i] \in Whitespace THEN <<>>
    ELSE SubSeq(s, CHOOSE i \in DOMAIN s :
                       /\ s[i] \notin Whitespace
                       /\ \A j \in 1..(i - 1) : s[j] \in Whitespace,
                Len(s))

\* str.rstrip(): s up to its last character that is not whitespace
RStrip(s) ==
    IF \A i \in DOMAIN s : s[i] \in Whitespace THEN <<>>
    ELSE SubSeq(s, 1, CHOOSE i \in DOMAIN s :
                          /\ s[i] \notin Whitespace
                          /\ \A j \in (i + 1)..Len(s) : s[j] \in Whitespace)

\* str.strip()
Strip(s) == RStrip(LStrip(s))

\* re.sub(r'\s+', ' ', s): every maximal run of whitespace becomes one space.
\* the first character of a run stands for the run, as one space
CollapseWs(s) ==
    LET kept == SelectSeq([i \in DOMAIN s |-> i],
                    LAMBDA i : \/ s[i] \notin Whitespace
                               \/ i = 1
                               \/ s[i - 1] \notin Whitespace)
        collapsed == [k \in DOMAIN kept |->
                         IF s[kept[k]] \in Whitespace THEN " " ELSE s[kept[k]]]
    IN SubSeq(collapsed, 1, Len(collapsed))

\* sub occurs in s at position i.
OccursAt(s, sub, i) ==
    /\ i + Len(sub) - 1 <= Len(s)
    /\ SubSeq(s, i, i + Len(sub) - 1) = sub

\* Python "sub in s".
Contains(s, sub) == \E i \in 1..(Len(s) + 1) : OccursAt(s, sub, i)

\* str.endswith
EndsWith(s, suf) ==
    Len(suf) <= Len(s) /\ SubSeq(s, Len(s) - Len(suf) + 1, Len(s)) = suf

\* str.split(sep) for a non-empty separator: left to right, non-overlapping.
RECURSIVE SplitOn(_, _)
SplitOn(s, sep) ==
    IF \E i \in 1..Len(s) : OccursAt(s, sep, i)
    THEN LET i == CHOOSE k \in 1..Len(s) :
                     /\ OccursAt(s, sep, k)
                     /\ \A j \in 1..(k - 1) : ~OccursAt(s, sep, j)
         IN <<SubSeq(s, 1, i - 1)>> \o SplitOn(Drop(s, i + Len(sep)), sep)
    ELSE <<s>>

\* sep.join(parts)
RECURSIVE Join(_, _)
Join(parts, sep) ==
    IF parts = <<>> THEN <<>>
    ELSE IF Len(parts) = 1 THEN parts[1]
    ELSE parts[1] \o sep \o Join(Tail(parts), sep)

\* ''.join(re.findall(r'\d+', s)): the digits of s in order.
DigitsOf(s) == SelectSeq(s, IsDigit)

\* int(digits) for a non-empty digit string.
RECURSIVE TextToNat(_)
TextToNat(ds) ==
    IF ds = <<>> THEN 0
    ELSE 10 * TextToNat(SubSeq(ds, 1, Len(ds) - 1)) + DigitVal(ds[Len(ds)])

\* str(n) for n >= 0.
RECURSIVE NatToText(_)
NatToText(n) ==
    IF n < 10 THEN <<DigitChars[n + 1]>>
    ELSE NatToText(n \div 10) \o <<DigitChars[(n % 10) + 1]>>

\* The thousands separators of format(n, ','), applied to a digit string.
RECURSIVE WithCommas(_)
WithCommas(ds) ==
    IF Len(ds) <= 3 THEN ds
    ELSE WithCommas(SubSeq(ds, 1, Len(ds) - 3)) \o <<",">> \o Drop(ds, Len(ds) - 2)

\* All texts over an alphabet of length at most n.
RECURSIVE TextsUpTo(_, _)
TextsUpTo(alphabet, n) ==
    IF n = 0 THEN {<<>>}
    ELSE LET shorter == TextsUpTo(alphabet, n - 1)
         IN shorter \cup {Append(t, c) : t \in shorter, c \in alphabet}

----
(***************************************************************************)
(* models.py: the Product record.                                          *)
(***************************************************************************)

Won == <<"won">>

SoldOut == <<"pum", "jeol">>                               \* "pumjeol"
PriceInquiry == <<"ga", "gyeok", " ", "mun", "ui">>         \* "gagyeok munui"
NoPriceInfo == <<"ga", "gyeok", " ", "jeong", "bo", " ", "eop", "eum">>   \* "gagyeok jeongbo eopeum"
NoSpecInfo == <<"sa", "yang", " ", "jeong", "bo", " ", "eop", "eum">>    \* "sayang jeongbo eopeum"

\* ['pumjeol', 'jaegoeopeum', 'ilsipumjeol']
SoldOutWords == {<<"pum", "jeol">>, <<"jae", "go", "eop", "eum">>, <<"il", "si", "pum", "jeol">>}

\* ['munui', 'jeonhwa', 'sangdam']
InquiryWords == {<<"mun", "ui">>, <<"jeon", "hwa">>, <<"sang", "dam">>}

\* Product._clean_string
CleanString(value) ==
    IF value = <<>> THEN <<>> ELSE CollapseWs(Strip(value))

\* Product._standardize_price
StandardizePrice(price) ==
    IF price = <<>> THEN NoPriceInfo
    ELSE IF \E w \in SoldOutWords : Contains(Lower(price), w) THEN SoldOut
    ELSE IF \E w \in InquiryWords : Contains(Lower(price), w) THEN PriceInquiry
    ELSE IF (\E i \in DOMAIN price : IsDigit(price[i])) /\ EndsWith(price, Won)
         THEN price
    ELSE IF \E i \in DOMAIN price : IsDigit(price[i])
         THEN WithCommas(NatToText(TextToNat(DigitsOf(price)))) \o Won
    ELSE price

\* [part.strip() for part in specs.split('/') if part.strip()]
SpecParts(specs) ==
    LET raw == SplitOn(specs, <<"/">>)
        stripped == [i \in DOMAIN raw |-> Strip(raw[i])]
    IN SelectSeq(stripped, LAMBDA p : p # <<>>)

\* The order-preserving, case-insensitive de-duplication loop of
\* _clean_specifications: seen holds the lowered parts kept so far.
RECURSIVE UniqueSpecs(_, _)
UniqueSpecs(parts, seen) ==
    IF parts = <<>> THEN <<>>
    ELSE LET spec == Head(parts)
             specClean == Strip(Lower(spec))
         IN IF specClean \notin seen /\ Len(specClean) > 0
            THEN <<spec>> \o UniqueSpecs(Tail(parts), seen \cup {specClean})
            ELSE UniqueSpecs(Tail(parts), seen)

SpecSeparator == <<" ", "/", " ">>

\* A variant of _clean_specifications without its two sentinel fallbacks.
CleanSpecificationsNoFallback(specs) ==
    IF specs = <<>> THEN NoSpecInfo
    ELSE Join(UniqueSpecs(SpecParts(specs), {}), SpecSeparator)

\* Product._clean_specifications
CleanSpecifications(specs) ==
    IF specs = <<>> THEN NoSpecInfo
    ELSE LET specParts == SpecParts(specs)
         IN IF specParts = <<>> THEN NoSpecInfo
            ELSE LET uniqueSpecs == UniqueSpecs(specParts, {})
                 IN IF uniqueSpecs # <<>>
                    THEN Join(uniqueSpecs, SpecSeparator)
                    ELSE NoSpecInfo

\* The field values of a Product whose construction did not complete.
NoFields == [name |-> <<>>, price |-> <<>>, specifications |-> <<>>,
             product_link |-> <<>>, site |-> <<>>]

\* The required-field validation of __post_init__ raises ValueError.
PostInitRaises(a) ==
    \/ a.name = <<>> \/ Strip(a.name) = <<>>
    \/ a.price = <<>> \/ Strip(a.price) = <<>>

\* Product.__post_init__ applied to the constructor's arguments: the
\* normalised fields of the record.
PostInit(a) ==
    [name |-> CleanString(a.name),
     price |-> StandardizePrice(CleanString(a.price)),
     specifications |-> CleanSpecifications(CleanString(a.specifications)),
     product_link |-> CleanString(a.product_link),
     site |-> CleanString(a.site)]

----
(***************************************************************************)
(* The parts of the state.  Each specification below runs one part of the  *)
(* program and leaves the other parts in their state after construction.   *)
(***************************************************************************)

\* The parsers each orchestrator queries, in the order it reads their results.
AppSites == <<"compuzone", "guidecom">>
IntegratedSites == <<"danawa", "compuzone", "guidecom">>
AllSites == Range(IntegratedSites)

ProductIdle ==
    /\ args = NoFields
    /\ built = "none"
    /\ product = NoFields

FanIdle ==
    /\ caller = "none"
    /\ orch = "idle"
    /\ worker = [s \in AllSites |-> "unused"]
    /\ ret = [s \in AllSites |-> <<>>]
    /\ siteProducts = [s \in AllSites |-> <<>>]
    /\ products = <<>>

ParserIdle ==
    /\ entry = "none"
    /\ stack = <<>>
    /\ unwinding = 0
    /\ outcome = "running"
    /\ failures = 0

GroupIdle ==
    /\ gThreshold = <<0, 1>>
    /\ gGiven = <<>>
    /\ gProducts = <<>>
    /\ ungrouped = <<>>
    /\ groups = <<>>
    /\ gPc = "idle"

MergeIdle ==
    /\ keyword = ""
    /\ mfrs = [s \in Range(AppSites) |-> <<>>]
    /\ pending = <<>>
    /\ all_mfrs = <<>>
    /\ manufacturers = <<>>
    /\ selected_manufacturers = {}
    /\ mPc = "idle"

BrandIdle ==
    /\ site_brands = [s \in AllSites |-> <<>>]
    /\ all_brands = <<>>
    /\ brands = <<>>
    /\ bPc = 1

DedupIdle ==
    /\ dedup = "none"
    /\ specs_text = <<>>
    /\ once = <<>>
    /\ twice = <<>>
    /\ applied = 0

DisplayIdle ==
    /\ shown = <<>>
    /\ min_price = <<>>
    /\ sorted_products = <<>>
    /\ rows = <<>>
    /\ vPc = "idle"

SearchIdle ==
    /\ qSite = "none"
    /\ qKeyword = <<>>
    /\ maker_codes = <<>>
    /\ limit = 0
    /\ strategy = 0
    /\ product_items = <<>>
    /\ all_products = <<>>
    /\ found = <<>>
    /\ qPc = "idle"

SelectIdle ==
    /\ offered = <<>>
    /\ checked = {}
    /\ aKeyword = <<>>
    /\ selected_codes = <<>>
    /\ compuzone_products = <<>>
    /\ guidecom_products = <<>>
    /\ bucket = 0
    /\ returned = {}
    /\ searching_products = FALSE
    /\ session_products = <<>>
    /\ aPc = "idle"

CapacityIdle ==
    /\ capacity_filter = <<>>
    /\ option_items = <<>>
    /\ option_index = 0
    /\ option_products = <<>>
    /\ cPc = "idle"

OptionsIdle ==
    /\ oSite = "none"
    /\ oKeyword = <<>>
    /\ network_down = FALSE
    /\ debug = FALSE
    /\ page_rows = [step |-> "none", items |-> <<>>]
    /\ sample_names = <<>>
    /\ search_options = <<>>
    /\ oPc = "idle"

DebugIdle ==
    /\ dKeyword = <<>>
    /\ dCodes = <<>>
    /\ dLimit = 0
    /\ site_pages = <<>>
    /\ instances = <<>>

BucketsIdle ==
    /\ bucket_no = 0
    /\ bucket_items = <<>>
    /\ contributed = <<>>
    /\ unique_results = <<>>
    /\ uPc = "idle"

RequestsIdle ==
    /\ rSite = ""
    /\ rKeyword = <<>>
    /\ rCodes = <<>>
    /\ rLimit = 0
    /\ request_log = <<>>
    /\ rPc = "idle"
    /\ rMethod = 0
    /\ rAttempt = 0
    /\ raised = FALSE
    /\ rReturned = <<>>

WorkersIdle ==
    /\ fan_out = "none"
    /\ main_pc = "idle"
    /\ task_pc = <<>>
    /\ task_requests = <<>>
    /\ parser_fields = <<>>
    /\ future_result = <<>>
    /\ site_lists = <<>>
    /\ session_lists = <<>>

RowsIdle ==
    /\ row_site = "none"
    /\ batch = <<>>
    /\ batch_limit = 0
    /\ row_no = 0
    /\ row_products = <<>>
    /\ row_pc = "idle"
    /\ row_returned = <<>>

KeywordIdle ==
    /\ kw_text = <<>>
    /\ kw_capacity = <<>>
    /\ kwPc = "idle"

SessionIdle ==
    /\ ss = <<>>
    /\ ticked = {}
    /\ run_pc = "off"
    /\ run_event = "none"
    /\ run_started = FALSE
    /\ form_shown = FALSE
    /\ site_queries = 0
    /\ submitted_empty = FALSE
    /\ waiting = "none"
    /\ interrupts = 0

----
(***************************************************************************)
(* Inputs of the Product specification.                                    *)
(***************************************************************************)

MaxPriceLen == 3
MaxSpecLen == 4

PriceAlphabet == {" ", "1", "a", "won", "pum", "jeol"}
SpecAlphabet == {" ", "/", "a", "A"}

\* Price texts as the parsers and the documentation produce them.
SamplePrices ==
    { <<"8", "9", ",", "9", "0", "0", "won">>,                 \* "89,900won"
      <<"1", "2", "3", "4", "5", "6">>,                       \* "123456"
      <<"1", "0", "0", "0", "won", "bu", "teo">>,               \* "1000wonbuteo"
      <<"0", "0", "7">>,
      <<"ga", "gyeok", " ", "mun", "ui">>,
      <<"jeon", "hwa", "sang", "dam">>,
      <<"jae", "go", "eop", "eum">>,
      <<"S", "O", "L", "D">> }

SampleSpecs ==
    { <<"1", "T", "B", " ", "/", " ", "M", ".", "2", " ", "/", " ", "1", "t", "b">>,
      <<"a", "/", "/", "b", " ", "/", "A">> }

SampleNames == { <<>>, <<" ">>, <<"a">>, <<" ", "a", " ", " ", "b">> }

PriceInputs == TextsUpTo(PriceAlphabet, MaxPriceLen) \cup SamplePrices
SpecInputs == TextsUpTo(SpecAlphabet, MaxSpecLen) \cup SampleSpecs

InitProduct ==
    /\ ProductIdle
    /\ FanIdle
    /\ ParserIdle
    /\ GroupIdle
    /\ MergeIdle
    /\ BrandIdle
    /\ DedupIdle
    /\ DisplayIdle
    /\ SearchIdle
    /\ SelectIdle
    /\ CapacityIdle
    /\ OptionsIdle
    /\ DebugIdle
    /\ BucketsIdle
    /\ RequestsIdle
    /\ WorkersIdle
    /\ RowsIdle
    /\ KeywordIdle
    /\ SessionIdle

\* The effect of one constructor call with arguments a.
Constructed(a) ==
    /\ args' = a
    /\ built' = IF PostInitRaises(a) THEN "ValueError" ELSE "ok"
    /\ product' = IF PostInitRaises(a) THEN NoFields ELSE PostInit(a)

\* Product(name, price, specifications, product_link, site): the dataclass
\* constructor followed by __post_init__, once per record.  Prices are
\* enumerated against a sample of specification texts and specification texts against a sample of
\* prices (the two fields are normalised independently).
Construct ==
    /\ built = "none"
    /\ \E n \in SampleNames, l \in {<<>>, <<"u">>}, s \in {<<>>, <<"c", "z">>} :
        \/ \E p \in PriceInputs, sp \in SampleSpecs \cup {<<>>} :
               Constructed([name |-> n, price |-> p, specifications |-> sp,
                            product_link |-> l, site |-> s])
        \/ \E p \in SamplePrices, sp \in SpecInputs :
               Constructed([name |-> n, price |-> p, specifications |-> sp,
                            product_link |-> l, site |-> s])
    /\ UNCHANGED notProduct

NextProduct == Construct

SpecProduct == InitProduct /\ [][NextProduct]_vars

HasDigit(t) == \E i \in DOMAIN t : IsDigit(t[i])

\* A price in "123,456won" form; read generously, any text that holds a digit
\* and ends in the currency character.
IsAmount(t) == HasDigit(t) /\ EndsWith(t, Won)

\* A specifications argument that is absent or holds only '/' and whitespace.
BlankSpecs(t) == \A i \in DOMAIN t : t[i] \in Whitespace \cup {"/"}

----
(***************************************************************************)
(* The product search over the site parsers: the two-worker fan-out of     *)
(* app.py and the sequential IntegratedSearcher.search_all_sites of        *)
(* total.py.  A site's call ends by returning a list, by returning None,   *)
(* or by raising.                                                          *)
(***************************************************************************)

MaxSiteProducts == 2

SitesOf(c) == IF c = "app" THEN AppSites
              ELSE IF c = "integrated" THEN IntegratedSites
              ELSE <<>>

\* The products a site can list (a product is identified by site and number).
SiteCatalog(site) == {<<site, 1>>, <<site, 2>>}

\* The lists a site's call can return.
SiteLists(site) == TextsUpTo(SiteCatalog(site), MaxSiteProducts)

InitFanout ==
    /\ ProductIdle
    /\ ParserIdle
    /\ GroupIdle
    /\ MergeIdle
    /\ BrandIdle
    /\ DedupIdle
    /\ caller \in {"app", "integrated"}
    /\ orch = "idle"
    /\ worker = [s \in AllSites |-> "unused"]
    /\ ret = [s \in AllSites |-> <<>>]
    /\ siteProducts = [s \in AllSites |-> <<>>]
    /\ products = <<>>
    /\ DisplayIdle
    /\ SearchIdle
    /\ SelectIdle
    /\ CapacityIdle
    /\ OptionsIdle
    /\ DebugIdle
    /\ BucketsIdle
    /\ RequestsIdle
    /\ WorkersIdle
    /\ RowsIdle
    /\ KeywordIdle
    /\ SessionIdle

Finished(state) == state \in {"returned", "returned_none", "raised"}

\* What reading one site's outcome leaves in the orchestrator's local list,
\* and whether the exception of a failed site leaves the error boundary:
\* a variant without the per-site try/except.
ReadOutcomeUnguarded(state, value, current) ==
    IF state = "raised" THEN [list |-> current, propagates |-> TRUE]
    ELSE IF state = "returned_none" THEN [list |-> <<>>, propagates |-> FALSE]
    ELSE [list |-> value, propagates |-> FALSE]

\* app.py: `try: x = future.result() or [] / except Exception: st.warning(..)`
\* total.py: `try: x = parser.get_unique_products(..); all_products.extend(x)
\*            / except Exception: print(..)`.
ReadOutcome(state, value, current) ==
    IF state = "raised" THEN [list |-> current, propagates |-> FALSE]
    ELSE IF state = "returned_none" THEN [list |-> <<>>, propagates |-> FALSE]
    ELSE [list |-> value, propagates |-> FALSE]

\* app.py: executor.submit(...) for both parsers.
Submit ==
    /\ caller = "app"
    /\ orch = "idle"
    /\ orch' = "await_1"
    /\ worker' = [s \in AllSites |->
                     IF s \in Range(AppSites) THEN "pending" ELSE worker[s]]
    /\ products' = <<>>
    /\ UNCHANGED <<caller, ret, siteProducts, notFan>>

\* A pool thread picks up a submitted call.
WorkerStart(s) ==
    /\ worker[s] = "pending"
    /\ worker' = [worker EXCEPT ![s] = "running"]
    /\ UNCHANGED <<caller, orch, ret, siteProducts, products, notFan>>

\* The site's get_unique_products returns a list (empty when every request
\* of the site failed or timed out).
WorkerReturn(s) ==
    /\ worker[s] = "running"
    /\ \E l \in SiteLists(s) :
           /\ ret' = [ret EXCEPT ![s] = l]
           /\ worker' = [worker EXCEPT ![s] = "returned"]
    /\ UNCHANGED <<caller, orch, siteProducts, products, notFan>>

\* The site's call returns None.
WorkerReturnNone(s) ==
    /\ worker[s] = "running"
    /\ worker' = [worker EXCEPT ![s] = "returned_none"]
    /\ UNCHANGED <<caller, orch, ret, siteProducts, products, notFan>>

\* The site's call raises.
WorkerRaise(s) ==
    /\ worker[s] = "running"
    /\ worker' = [worker EXCEPT ![s] = "raised"]
    /\ UNCHANGED <<caller, orch, ret, siteProducts, products, notFan>>

\* app.py: future.result() of the i-th site inside its own try/except.  An
\* exception that left the per-site boundary would reach the outer handler,
\* which empties session_state.products.
AwaitResult(i) ==
    /\ caller = "app"
    /\ orch = IF i = 1 THEN "await_1" ELSE "await_2"
    /\ LET s == AppSites[i]
           r == ReadOutcome(worker[s], ret[s], siteProducts[s])
       IN /\ Finished(worker[s])
          /\ IF r.propagates
             THEN /\ orch' = "failed"
                  /\ products' = <<>>
                  /\ UNCHANGED siteProducts
             ELSE /\ orch' = IF i = 1 THEN "await_2" ELSE "join"
                  /\ siteProducts' = [siteProducts EXCEPT ![s] = r.list]
                  /\ UNCHANGED products
    /\ UNCHANGED <<caller, worker, ret, notFan>>

\* app.py: leaving `with ThreadPoolExecutor(...)` waits for every worker
\* (shutdown(wait=True)); then all_products = compuzone_products +
\* guidecom_products is stored into session_state.products.
JoinAndMerge ==
    /\ caller = "app"
    /\ orch = "join"
    /\ \A i \in DOMAIN AppSites : Finished(worker[AppSites[i]])
    /\ products' = siteProducts[AppSites[1]] \o siteProducts[AppSites[2]]
    /\ orch' = "done"
    /\ UNCHANGED <<caller, worker, ret, siteProducts, notFan>>

\* The position of search_all_sites after the try block of its i-th site.
AfterSite == <<"after_danawa", "after_compuzone", "done">>

\* total.py search_all_sites: the next site is queried in line, inside its
\* own try/except; its list is appended to all_products.
QuerySite(i) ==
    /\ caller = "integrated"
    /\ orch = IF i = 1 THEN "idle" ELSE AfterSite[i - 1]
    /\ LET s == IntegratedSites[i]
       IN \E state \in {"returned", "returned_none", "raised"}, l \in SiteLists(s) :
            LET value == IF state = "returned" THEN l ELSE <<>>
                r == ReadOutcome(state, value, <<>>)
            IN /\ state = "returned" \/ l = <<>>
               /\ worker' = [worker EXCEPT ![s] = state]
               /\ ret' = [ret EXCEPT ![s] = value]
               /\ IF r.propagates
                  THEN /\ orch' = "failed"
                       /\ UNCHANGED <<siteProducts, products>>
                  ELSE /\ orch' = AfterSite[i]
                       /\ siteProducts' = [siteProducts EXCEPT ![s] = r.list]
                       /\ products' = products \o r.list
    /\ UNCHANGED <<caller, notFan>>

NextFanout ==
    \/ Submit
    \/ \E s \in AllSites : WorkerStart(s)
    \/ \E s \in AllSites : WorkerReturn(s)
    \/ \E s \in AllSites : WorkerReturnNone(s)
    \/ \E s \in AllSites : WorkerRaise(s)
    \/ \E i \in DOMAIN AppSites : AwaitResult(i)
    \/ JoinAndMerge
    \/ \E i \in DOMAIN IntegratedSites : QuerySite(i)

SpecFanout == InitFanout /\ [][NextFanout]_vars

\* What a site contributes: its full returned list if its call succeeded,
\* nothing if it returned None or raised.
Contribution(s) == IF worker[s] = "returned" THEN ret[s] ELSE <<>>

RECURSIVE ConcatContributions(_)
ConcatContributions(sites) ==
    IF sites = <<>> THEN <<>>
    ELSE Contribution(Head(sites)) \o ConcatContributions(Tail(sites))

\* C2: the orchestrator never fails, and when it is done the merged list is
\* exactly the concatenation of the full result lists of the sites whose call
\* succeeded, with nothing from a site that failed.
C2_FailureIsolation ==
    /\ orch # "failed"
    /\ orch = "done" => products = ConcatContributions(SitesOf(caller))

\* C2 witness: a finished search in which one site raised and another
\* site's non-empty list is in the merged result.
C2_Witness ==
    /\ orch = "done"
    /\ \E s, t \in Range(SitesOf(caller)) :
           /\ worker[s] = "raised"
           /\ worker[t] = "returned"
           /\ ret[t] # <<>>
           /\ products = ConcatContributions(SitesOf(caller))
           /\ products # <<>>

----
(***************************************************************************)
(* Exceptions in the public methods of the site parsers.  Each method is   *)
(* the sequence of its steps; a step names the positions that may follow   *)
(* it (0: the method returns its list) and the try blocks that enclose it, *)
(* innermost first.  A handler either returns [] (to = 0) or resumes the   *)
(* method at a position (the `continue` of a loop).                        *)
(***************************************************************************)

MaxFailures == 2

\* An except clause: where it resumes (0: `return []`), and whether its own
\* body can raise.
Handler(to) == [to |-> to, risky |-> FALSE]
RiskyHandler(to) == [to |-> to, risky |-> TRUE]

\* A step that may raise, a step that cannot, and a call of another method.
Step(name, next, handlers) ==
    [name |-> name, callee |-> "", raises |-> TRUE, next |-> next,
     handlers |-> handlers]
SafeStep(name, next) ==
    [name |-> name, callee |-> "", raises |-> FALSE, next |-> next,
     handlers |-> <<>>]
Call(callee, next, handlers) ==
    [name |-> "call", callee |-> callee, raises |-> FALSE, next |-> next,
     handlers |-> handlers]

\* CompuzoneParser.get_search_options: one try around the three strategies.
CzGetSearchOptions ==
    LET E == <<Handler(0)>>
    IN << Step("_get_manufacturer_from_search_api", {0, 2}, E),
          Step("_extract_brands_from_search_results", {0, 3}, E),
          Step("_get_known_manufacturer_ids", {0}, E) >>

\* The steps of the k-th strategy of CompuzoneParser.search_products, whose
\* first step is at position p; its except clause continues with the next
\* strategy (at p + 4).  The clause prints strategy_name, which is unbound
\* when the pop of the first strategy raised.
CzStrategy(k, p, outer) ==
    LET S == <<Handler(p + 4), outer>>
        P == <<IF k = 1 THEN RiskyHandler(p + 4) ELSE Handler(p + 4), outer>>
    IN << Step("strategy.pop", {p + 1}, P),
          Step("_call_search_api", {p + 2, p + 4}, S),
          Call("cz._extract_product_elements", {p + 3, p + 4}, S),
          Call("cz._parse_all_products", {p + 4, 16}, S) >>

\* CompuzoneParser.search_products.
CzSearchProducts ==
    LET O == Handler(0)
    IN << Step("quote_keyword", {2}, <<O>>),
          Step("visit_search_page", {3}, <<Handler(0), O>>),
          Step("_build_search_strategies", {4}, <<O>>) >>
       \o CzStrategy(1, 4, O) \o CzStrategy(2, 8, O) \o CzStrategy(3, 12, O)
       \o << Step("_finalize_search_results", {0}, <<O>>) >>

\* CompuzoneParser._extract_product_elements: no try of its own.
CzExtractProductElements ==
    << Step("BeautifulSoup", {2}, <<>>),
       Step("soup.select", {0, 2}, <<>>) >>

\* CompuzoneParser._parse_all_products: a try around each row.
CzParseAllProducts ==
    << SafeStep("next_item", {2, 3}),
       Step("_parse_product_item_with_options", {1, 3}, <<Handler(1)>>),
       SafeStep("return_all_products", {0}) >>

\* CompuzoneParser.get_unique_products: no try of its own.
CzGetUniqueProducts ==
    << Call("cz.search_products", {2}, <<>>),
       SafeStep("unique_by_name", {0}) >>

\* GuidecomParser.get_search_options: one try around everything.
GcGetSearchOptions ==
    LET E == <<Handler(0)>>
    IN << Step("_post_list_filtered", {2, 3}, E),
          Step("_post_list_unfiltered", {3}, E),
          Step("find_all_rows", {0, 4}, E),
          Step("extract_manufacturer_of_row", {4, 5}, E),
          Step("sort_and_build", {0}, E) >>

\* GuidecomParser.search_products.
GcSearchProducts ==
    LET E == <<Handler(0)>>
    IN << SafeStep("set_current_search_keyword", {2}),
          Step("_resolve_order_param", {3}, E),
          Step("_try_alternative_methods", {4}, E),
          Step("_find_goods_list", {0, 5}, E),
          Step("_parse_product_item", {0, 5}, E) >>

\* GuidecomParser.get_unique_products: a try around each bucket inside a
\* try around everything.
GcGetUniqueProducts ==
    LET O == Handler(0)
        Bucket(p) == << Call("gc.search_products", {p + 1}, <<Handler(p + 2), O>>),
                        Step("select_candidates", {p + 2}, <<Handler(p + 2), O>>) >>
    IN << Step("search_buckets", {2}, <<O>>) >>
       \o Bucket(2) \o Bucket(4) \o Bucket(6)
       \o << Step("final_results", {0}, <<O>>) >>

PublicMethods == {"cz.get_search_options", "cz.search_products",
                  "cz.get_unique_products", "gc.get_search_options",
                  "gc.search_products", "gc.get_unique_products"}

Program(m) ==
    CASE m = "cz.get_search_options" -> CzGetSearchOptions
      [] m = "cz.search_products" -> CzSearchProducts
      [] m = "cz._extract_product_elements" -> CzExtractProductElements
      [] m = "cz._parse_all_products" -> CzParseAllProducts
      [] m = "cz.get_unique_products" -> CzGetUniqueProducts
      [] m = "gc.get_search_options" -> GcGetSearchOptions
      [] m = "gc.search_products" -> GcSearchProducts
      [] m = "gc.get_unique_products" -> GcGetUniqueProducts

\* The try blocks around a step with their outermost one removed.
WithoutOutermostTry(instr) ==
    SubSeq(instr.handlers, 1, Len(instr.handlers) - 1)

\* The try blocks that enclose a step.
EnclosingHandlers(instr) == instr.handlers

Top == stack[Len(stack)]
Current == Program(Top[1])[Top[2]]
Caller == SubSeq(stack, 1, Len(stack) - 1)

InitParser ==
    /\ ProductIdle
    /\ FanIdle
    /\ GroupIdle
    /\ MergeIdle
    /\ BrandIdle
    /\ DedupIdle
    /\ entry \in PublicMethods
    /\ stack = <<<<entry, 1>>>>
    /\ unwinding = 0
    /\ outcome = "running"
    /\ failures = 0
    /\ DisplayIdle
    /\ SearchIdle
    /\ SelectIdle
    /\ CapacityIdle
    /\ OptionsIdle
    /\ DebugIdle
    /\ BucketsIdle
    /\ RequestsIdle
    /\ WorkersIdle
    /\ RowsIdle
    /\ KeywordIdle
    /\ SessionIdle

\* The innermost frame returns a list to its caller, which goes on to one of
\* the positions that follow its call; the outermost frame returns it to the
\* caller of the public method.
ReturnList ==
    IF Len(stack) = 1
    THEN /\ stack' = <<>>
         /\ outcome' = "returned"
    ELSE /\ \E n \in Program(Caller[Len(Caller)][1])[Caller[Len(Caller)][2]].next :
               IF n = 0
               THEN stack' = SubSeq(Caller, 1, Len(Caller) - 1)
               ELSE stack' = [Caller EXCEPT ![Len(Caller)] = <<@[1], n>>]
         /\ UNCHANGED outcome

\* A step completes, or a method is called.
Proceed ==
    /\ outcome = "running" /\ stack # <<>> /\ unwinding = 0
    /\ IF Current.callee # ""
       THEN /\ stack' = Append(stack, <<Current.callee, 1>>)
            /\ UNCHANGED outcome
       ELSE \E n \in Current.next :
               IF n = 0 THEN ReturnList
               ELSE /\ stack' = [stack EXCEPT ![Len(stack)] = <<@[1], n>>]
                    /\ UNCHANGED outcome
    /\ UNCHANGED <<entry, unwinding, failures, notParser>>

\* A step raises.
Raise ==
    /\ outcome = "running" /\ stack # <<>> /\ unwinding = 0
    /\ Current.raises
    /\ failures < MaxFailures
    /\ failures' = failures + 1
    /\ unwinding' = 1
    /\ UNCHANGED <<entry, stack, outcome, notParser>>

\* The exception reaches an enclosing except clause, which returns [] or
\* resumes the method.
Catch ==
    /\ outcome = "running" /\ unwinding > 0
    /\ unwinding <= Len(EnclosingHandlers(Current))
    /\ LET h == EnclosingHandlers(Current)[unwinding]
       IN IF h.to = 0 THEN ReturnList
          ELSE /\ stack' = [stack EXCEPT ![Len(stack)] = <<@[1], h.to>>]
               /\ UNCHANGED outcome
    /\ unwinding' = 0
    /\ UNCHANGED <<entry, failures, notParser>>

\* The except clause that caught the exception raises itself: the new
\* exception goes to the next enclosing try.
RaiseInHandler ==
    /\ outcome = "running" /\ unwinding > 0
    /\ unwinding <= Len(EnclosingHandlers(Current))
    /\ EnclosingHandlers(Current)[unwinding].risky
    /\ unwinding' = unwinding + 1
    /\ UNCHANGED <<entry, stack, outcome, failures, notParser>>

\* No try of the frame encloses the position: the exception leaves the
\* method, to the caller's call or out of the public method.
Propagate ==
    /\ outcome = "running" /\ unwinding > 0
    /\ unwinding > Len(EnclosingHandlers(Current))
    /\ stack' = Caller
    /\ IF Caller = <<>>
       THEN outcome' = "raised" /\ unwinding' = 0
       ELSE unwinding' = 1 /\ UNCHANGED outcome
    /\ UNCHANGED <<entry, failures, notParser>>

NextParser ==
    \/ Proceed
    \/ Raise
    \/ Catch
    \/ RaiseInHandler
    \/ Propagate

SpecParser == InitParser /\ [][NextParser]_vars

\* C3: no exception crosses the boundary of a public parser method: a call
\* of get_search_options, search_products or get_unique_products of either
\* parser never ends by raising, whichever internal steps fail.
C3_NoExceptionCrossesBoundary == outcome # "raised"

\* C3 witness: a public method returned its list although internal steps
\* of it (or of the method it calls) raised.
C3_Witness ==
    /\ entry \in PublicMethods
    /\ outcome = "returned"
    /\ failures = MaxFailures

----
(***************************************************************************)
(* total.py: IntegratedSearcher.group_similar_products and the name        *)
(* similarity it uses (difflib.SequenceMatcher.ratio on normalised names). *)
(***************************************************************************)

\* Characters that are neither \w nor \s.
Punctuation == {"[", "]", "-", ".", ",", "/", "(", ")", "+", "~", "!", "*"}

IsWordOrSpace(c) == c \notin Punctuation

\* The length of the run of characters other than "]" that starts at i.
TagBodyLen(s, i) ==
    IF \E k \in i..Len(s) : s[k] = "]"
    THEN (CHOOSE k \in i..Len(s) :
              s[k] = "]" /\ \A j \in i..(k - 1) : s[j] # "]") - i
    ELSE IF i > Len(s) THEN 0 ELSE Len(s) - i + 1

\* re.sub(r'\[[^\]]+\]', '', s): the scan from position i.
RECURSIVE RemoveTagsFrom(_, _)
RemoveTagsFrom(s, i) ==
    IF i > Len(s) THEN <<>>
    ELSE LET n == TagBodyLen(s, i + 1)
         IN IF s[i] = "[" /\ n > 0 /\ i + n + 1 <= Len(s)
            THEN RemoveTagsFrom(s, i + n + 2)
            ELSE <<s[i]>> \o RemoveTagsFrom(s, i + 1)

RemoveTags(s) == RemoveTagsFrom(s, 1)

\* normalize(text) of _calculate_similarity
NormalizeName(text) ==
    LET noTags == RemoveTags(text)
        noPunct == [i \in DOMAIN noTags |->
                       IF IsWordOrSpace(noTags[i]) THEN noTags[i] ELSE " "]
    IN Lower(Strip(CollapseWs(noPunct)))

\* The length of the common prefix of a[i..ahi] and b[j..bhi].
RECURSIVE CommonPrefixLen(_, _, _, _, _, _)
CommonPrefixLen(a, b, i, ahi, j, bhi) ==
    IF i > ahi \/ j > bhi \/ a[i] # b[j] THEN 0
    ELSE 1 + CommonPrefixLen(a, b, i + 1, ahi, j + 1, bhi)

\* SequenceMatcher.find_longest_match(alo, ahi, blo, bhi) without junk, on
\* the inclusive ranges a[alo..ahi], b[blo..bhi]: <<i, j, k>>, a longest
\* block a[i..i+k-1] = b[j..j+k-1], of those the one starting earliest in
\* a, and of those the one starting earliest in b; k = 0 when nothing matches.
FindLongestMatch(a, b, alo, ahi, blo, bhi) ==
    LET blocks == {<<i, j, CommonPrefixLen(a, b, i, ahi, j, bhi)>> :
                       i \in alo..ahi, j \in blo..bhi}
        Better(x, y) == \/ x[3] > y[3]
                        \/ x[3] = y[3] /\ x[1] < y[1]
                        \/ x[3] = y[3] /\ x[1] = y[1] /\ x[2] <= y[2]
    IN IF blocks = {} THEN <<alo, blo, 0>>
       ELSE CHOOSE x \in blocks : \A y \in blocks : Better(x, y)

\* The total size of SequenceMatcher.get_matching_blocks() within the
\* ranges: the longest match, then the matches to its left and to its right.
RECURSIVE MatchedSize(_, _, _, _, _, _)
MatchedSize(a, b, alo, ahi, blo, bhi) ==
    IF alo > ahi \/ blo > bhi THEN 0
    ELSE LET m == FindLongestMatch(a, b, alo, ahi, blo, bhi)
         IN IF m[3] = 0 THEN 0
            ELSE m[3]
                 + MatchedSize(a, b, alo, m[1] - 1, blo, m[2] - 1)
                 + MatchedSize(a, b, m[1] + m[3], ahi, m[2] + m[3], bhi)

\* SequenceMatcher(None, a, b).ratio() as the rational <<numerator,
\* denominator>>: 2 * matches / (len(a) + len(b)), and 1 for two empty texts.
Ratio(a, b) ==
    IF Len(a) + Len(b) = 0 THEN <<1, 1>>
    ELSE <<2 * MatchedSize(a, b, 1, Len(a), 1, Len(b)), Len(a) + Len(b)>>

\* IntegratedSearcher._calculate_similarity
CalculateSimilarity(name1, name2) ==
    Ratio(NormalizeName(name1), NormalizeName(name2))

\* x >= y for rationals with positive denominators.
AtLeast(x, y) == x[1] * y[2] >= y[1] * x[2]

\* A variant of the membership test with > in place of >=.
MeetsThresholdStrictly(base, p, threshold) ==
    ~AtLeast(threshold, CalculateSimilarity(base.name, p.name))

\* `similarity >= similarity_threshold` for a product against the group's base.
MeetsThreshold(base, p, threshold) ==
    AtLeast(CalculateSimilarity(base.name, p.name), threshold)

\* A variant of the scan that keeps only the last product it set aside
\* (remaining = [product] in place of remaining.append(product)).
RECURSIVE ScanKeepingLast(_, _, _, _, _)
ScanKeepingLast(base, rest, threshold, members, remaining) ==
    IF rest = <<>> THEN [members |-> members, remaining |-> remaining]
    ELSE IF MeetsThreshold(base, Head(rest), threshold)
         THEN ScanKeepingLast(base, Tail(rest), threshold,
                              Append(members, Head(rest)), remaining)
         ELSE ScanKeepingLast(base, Tail(rest), threshold,
                              members, <<Head(rest)>>)

\* The for loop over ungrouped: each product joins the group of base or is
\* set aside in remaining.
RECURSIVE Scan(_, _, _, _, _)
Scan(base, rest, threshold, members, remaining) ==
    IF rest = <<>> THEN [members |-> members, remaining |-> remaining]
    ELSE IF MeetsThreshold(base, Head(rest), threshold)
         THEN Scan(base, Tail(rest), threshold,
                   Append(members, Head(rest)), remaining)
         ELSE Scan(base, Tail(rest), threshold,
                   members, Append(remaining, Head(rest)))

MaxNameLen == 50

\* IntegratedSearcher._clean_product_name
CleanProductName(name) ==
    LET cleaned == Strip(CollapseWs(RemoveTags(name)))
    IN IF Len(cleaned) > MaxNameLen
       THEN SubSeq(cleaned, 1, MaxNameLen) \o <<".", ".", ".">>
       ELSE cleaned

\* What popping from ungrouped does to the caller's list: nothing, since
\* ungrouped is products.copy().
CallerListAfterPop(callerList, ungroupedAfter) == callerList

MaxProducts == 3

\* Product names: one product as two sites list it ("[s] 990 1tb" and
\* "[S] 990 1TB nv"), a pair whose similarity is exactly 0.6 ("abc",
\* "abcdefg"), a punctuated name and a name that is only a brand tag.
GroupNames ==
    { <<"[", "s", "]", " ", "9", "9", "0", " ", "1", "t", "b">>,
      <<"[", "S", "]", " ", "9", "9", "0", " ", "1", "T", "B", " ", "n", "v">>,
      <<"a", "b", "c">>,
      <<"a", "b", "c", "d", "e", "f", "g">>,
      <<"a", "b", "-", "c", "d">>,
      <<"[", "x", "]">> }

\* similarity_threshold: 0, 0.5, 0.6 (the default), 1 and 1.1.
Thresholds == {<<0, 1>>, <<1, 2>>, <<6, 10>>, <<1, 1>>, <<11, 10>>}

\* The product lists of length at most MaxProducts; a product carries its
\* position in the list as its identity.
ProductLists ==
    {[i \in DOMAIN names |-> [id |-> i, name |-> names[i]]] :
         names \in TextsUpTo(GroupNames, MaxProducts)}

InitGroup ==
    /\ ProductIdle
    /\ FanIdle
    /\ ParserIdle
    /\ MergeIdle
    /\ BrandIdle
    /\ DedupIdle
    /\ gThreshold \in Thresholds
    /\ gGiven \in ProductLists
    /\ gProducts = gGiven
    /\ ungrouped = <<>>
    /\ groups = <<>>
    /\ gPc = "idle"
    /\ DisplayIdle
    /\ SearchIdle
    /\ SelectIdle
    /\ CapacityIdle
    /\ OptionsIdle
    /\ DebugIdle
    /\ BucketsIdle
    /\ RequestsIdle
    /\ WorkersIdle
    /\ RowsIdle
    /\ KeywordIdle
    /\ SessionIdle

\* group_similar_products up to the while test: [] for no products, else
\* groups = [] and ungrouped = products.copy().
GroupStart ==
    /\ gPc = "idle"
    /\ groups' = <<>>
    /\ ungrouped' = gProducts
    /\ gPc' = IF gProducts = <<>> THEN "done" ELSE "loop"
    /\ UNCHANGED <<gThreshold, gGiven, gProducts, notGroup>>

\* One iteration of the while loop: pop the base product, scan the rest,
\* append the group.
GroupIterate ==
    /\ gPc = "loop"
    /\ ungrouped # <<>>
    /\ LET base == Head(ungrouped)
           scan == Scan(base, Tail(ungrouped), gThreshold, <<base>>, <<>>)
       IN /\ ungrouped' = scan.remaining
          /\ groups' = Append(groups,
                 [representative_name |-> CleanProductName(base.name),
                  products |-> scan.members])
          /\ gProducts' = CallerListAfterPop(gProducts, scan.remaining)
    /\ UNCHANGED <<gThreshold, gGiven, gPc, notGroup>>

\* The while test fails: return groups.
GroupReturn ==
    /\ gPc = "loop"
    /\ ungrouped = <<>>
    /\ gPc' = "done"
    /\ UNCHANGED <<gThreshold, gGiven, gProducts, ungrouped, groups, notGroup>>

NextGroup ==
    \/ GroupStart
    \/ GroupIterate
    \/ GroupReturn

SpecGroup == InitGroup /\ [][NextGroup]_vars

\* The identities of the products of all groups, in group order.
RECURSIVE GroupedIds(_)
GroupedIds(gs) ==
    IF gs = <<>> THEN <<>>
    ELSE [i \in DOMAIN gs[1].products |-> gs[1].products[i].id]
         \o GroupedIds(Tail(gs))

\* C4: when group_similar_products has returned, its groups partition the
\* input: every input occurrence is in exactly one group exactly once, with
\* its own name, no group is empty, and the input list is as it was.
C4_GroupingIsPartition ==
    gPc = "done" =>
        LET ids == GroupedIds(groups)
        IN /\ Len(ids) = Len(gGiven)
           /\ \A k \in DOMAIN gGiven :
                  Cardinality({i \in DOMAIN ids : ids[i] = k}) = 1
           /\ \A g \in DOMAIN groups :
                  /\ groups[g].products # <<>>
                  /\ \A i \in DOMAIN groups[g].products :
                         groups[g].products[i] = gGiven[groups[g].products[i].id]
           /\ gProducts = gGiven

\* C4 witness: a returned grouping of a full-length list into at least two
\* groups, one of them with several members.
C4_Witness ==
    /\ gPc = "done"
    /\ Len(gGiven) = MaxProducts
    /\ Len(groups) >= 2
    /\ \E g \in DOMAIN groups : Len(groups[g].products) >= 2

\* C5: in the returned grouping every non-first member of a group has
\* similarity >= threshold to the group's first product, and every product
\* of a later group has similarity < threshold to the first product of
\* every earlier group.
C5_MembershipByThreshold ==
    gPc = "done" =>
        \A g \in DOMAIN groups :
            LET base == groups[g].products[1]
            IN /\ \A i \in 2..Len(groups[g].products) :
                      AtLeast(CalculateSimilarity(base.name,
                                  groups[g].products[i].name), gThreshold)
               /\ \A h \in (g + 1)..Len(groups) :
                      \A i \in DOMAIN groups[h].products :
                          ~AtLeast(CalculateSimilarity(base.name,
                                       groups[h].products[i].name), gThreshold)

\* C5 witness: a returned grouping at the default threshold 0.6 in which a
\* member joined its group with similarity exactly 0.6 and another product
\* was left to a later group.
C5_Witness ==
    /\ gPc = "done"
    /\ gThreshold = <<6, 10>>
    /\ Len(groups) >= 2
    /\ \E g \in DOMAIN groups :
           /\ Len(groups[g].products) >= 2
           /\ LET r == CalculateSimilarity(groups[g].products[1].name,
                                           groups[g].products[2].name)
              IN r[1] * 10 = 6 * r[2]

----
(***************************************************************************)
(* app.py: the manufacturer search handler and its merge of the two sites' *)
(* candidate lists.                                                        *)
(***************************************************************************)

MaxCandidates == 2

\* Manufacturer names as the sites report them: two spellings of one brand
\* that differ in case and surrounding whitespace, and another brand.
MfrNames == { <<"S", "a">>, <<"s", "a", " ">>, <<"L", "G">> }

MfrCodes == {"1", "2"}

\* {'name': ..., 'code': ...}
Candidates == [name : MfrNames, code : MfrCodes]

CandidateLists == TextsUpTo(Candidates, MaxCandidates)

\* What a get_search_options future can hold: a list, None or an exception.
MfrOutcomes ==
    [state : {"returned"}, value : CandidateLists]
        \cup [state : {"returned_none", "raised"}, value : {<<>>}]

\* mfr_key = mfr['name'].lower().strip()
MfrKey(name) == Strip(Lower(name))

\* The position of the entry of all_mfrs stored under key, 0 if there is none.
EntryAt(entries, key) ==
    IF \E i \in DOMAIN entries : entries[i].key = key
    THEN CHOOSE i \in DOMAIN entries : entries[i].key = key
    ELSE 0

\* A variant of the loop body that appends the code without looking whether
\* the entry already holds it.
MergeCandidateUnchecked(entries, mfr) ==
    LET key == MfrKey(mfr.name)
        at == EntryAt(entries, key)
    IN IF at = 0
       THEN Append(entries,
                   [key |-> key, name |-> mfr.name, codes |-> <<mfr.code>>])
       ELSE [entries EXCEPT ![at].codes = Append(@, mfr.code)]

\* The body of `for mfr in compuzone_mfrs + guidecom_mfrs`.
MergeCandidate(entries, mfr) ==
    LET key == MfrKey(mfr.name)
        at == EntryAt(entries, key)
    IN IF at = 0
       THEN Append(entries,
                   [key |-> key, name |-> mfr.name, codes |-> <<mfr.code>>])
       ELSE IF mfr.code \in Range(entries[at].codes)
            THEN entries
            ELSE [entries EXCEPT ![at].codes = Append(@, mfr.code)]

\* list(all_mfrs.values())
EntryValues(entries) ==
    [i \in DOMAIN entries |->
        [name |-> entries[i].name, codes |-> entries[i].codes]]

Keywords == {"", "ssd"}

InitMerge ==
    /\ ProductIdle
    /\ FanIdle
    /\ ParserIdle
    /\ GroupIdle
    /\ BrandIdle
    /\ MergeIdle
    /\ DedupIdle
    /\ DisplayIdle
    /\ SearchIdle
    /\ SelectIdle
    /\ CapacityIdle
    /\ OptionsIdle
    /\ DebugIdle
    /\ BucketsIdle
    /\ RequestsIdle
    /\ WorkersIdle
    /\ RowsIdle
    /\ KeywordIdle
    /\ SessionIdle

\* The search button: the session state is reset and, when there is a
\* keyword, get_search_options is submitted for both parsers.
MfrSearch ==
    /\ mPc = "idle"
    /\ \E k \in Keywords :
           /\ keyword' = k
           /\ mPc' = IF k = "" THEN "done" ELSE "await1"
    /\ products' = <<>>
    /\ manufacturers' = <<>>
    /\ selected_manufacturers' = {}
    /\ mfrs' = [s \in Range(AppSites) |-> <<>>]
    /\ pending' = <<>>
    /\ all_mfrs' = <<>>
    /\ UNCHANGED <<caller, orch, worker, ret, siteProducts>>
    /\ UNCHANGED <<productVars, parserVars, groupVars, brandVars, dedupVars, displayVars, searchVars, selectVars, capacityVars, optionsVars, debugVars, bucketsVars, requestsVars, workersVars, rowsVars, keywordVars, sessionVars>>

\* `try: x_mfrs = future_x.result() or [] / except Exception: st.warning(..)`
\* for the i-th site; after the second, leaving the executor starts the merge
\* over compuzone_mfrs + guidecom_mfrs.  An exception that left the site's
\* try would reach the outer except: manufacturers = [].
MfrAwait(i) ==
    /\ mPc = IF i = 1 THEN "await1" ELSE "await2"
    /\ \E out \in MfrOutcomes :
           LET s == AppSites[i]
               r == ReadOutcome(out.state, out.value, mfrs[s])
               read == [mfrs EXCEPT ![s] = r.list]
           IN IF r.propagates
              THEN /\ mPc' = "done"
                   /\ manufacturers' = <<>>
                   /\ UNCHANGED <<mfrs, pending>>
              ELSE /\ mfrs' = read
                   /\ mPc' = IF i = 1 THEN "await2" ELSE "merge"
                   /\ pending' = IF i = 1 THEN pending
                                 ELSE read[AppSites[1]] \o read[AppSites[2]]
                   /\ UNCHANGED manufacturers
    /\ UNCHANGED <<keyword, all_mfrs, selected_manufacturers, notMerge>>

\* One iteration of the merge loop.
MfrMergeNext ==
    /\ mPc = "merge"
    /\ pending # <<>>
    /\ all_mfrs' = MergeCandidate(all_mfrs, Head(pending))
    /\ pending' = Tail(pending)
    /\ UNCHANGED <<keyword, mfrs, manufacturers, selected_manufacturers, mPc,
                   notMerge>>

\* After the loop: manufacturers = list(all_mfrs.values()) and
\* selected_manufacturers = {m['name']: False for m in manufacturers}.
MfrStore ==
    /\ mPc = "merge"
    /\ pending = <<>>
    /\ manufacturers' = EntryValues(all_mfrs)
    /\ selected_manufacturers' = {all_mfrs[i].name : i \in DOMAIN all_mfrs}
    /\ mPc' = "done"
    /\ UNCHANGED <<keyword, mfrs, pending, all_mfrs, notMerge>>

NextMerge ==
    \/ MfrSearch
    \/ \E i \in 1..2 : MfrAwait(i)
    \/ MfrMergeNext
    \/ MfrStore

SpecMerge == InitMerge /\ [][NextMerge]_vars

\* The candidates the two sites reported, compuzone's first.
Reported == mfrs[AppSites[1]] \o mfrs[AppSites[2]]

\* The codes reported under the normalised name key.
ReportedCodes(reported, key) ==
    {reported[i].code : i \in {j \in DOMAIN reported :
                                   MfrKey(reported[j].name) = key}}

\* The merge has run to its end.
Merged == mPc = "done" /\ keyword # "" /\ pending = <<>>

\* C6: after the merge the manufacturers list has exactly one entry per
\* normalised (lower-cased, stripped) name reported by a site, and the
\* entry's codes are the distinct codes reported under that name, each once.
C6_OneEntryPerNameAllCodes ==
    Merged =>
        /\ \A i, j \in DOMAIN manufacturers :
               MfrKey(manufacturers[i].name) = MfrKey(manufacturers[j].name)
                   => i = j
        /\ {MfrKey(manufacturers[i].name) : i \in DOMAIN manufacturers}
               = {MfrKey(Reported[i].name) : i \in DOMAIN Reported}
        /\ \A i \in DOMAIN manufacturers :
               LET codes == manufacturers[i].codes
               IN /\ Range(codes) = ReportedCodes(Reported,
                                        MfrKey(manufacturers[i].name))
                  /\ \A a, b \in DOMAIN codes : codes[a] = codes[b] => a = b

\* C6 witness: both sites reported the same brand under different spellings
\* and codes, one code twice, and another brand; the merge made two entries.
C6_Witness ==
    /\ Merged
    /\ Len(manufacturers) = 2
    /\ \E i \in DOMAIN manufacturers : Len(manufacturers[i].codes) = 2
    /\ \E a \in DOMAIN mfrs.compuzone, b \in DOMAIN mfrs.guidecom :
           /\ mfrs.compuzone[a].name # mfrs.guidecom[b].name
           /\ MfrKey(mfrs.compuzone[a].name) = MfrKey(mfrs.guidecom[b].name)
           /\ mfrs.compuzone[a].code # mfrs.guidecom[b].code
    /\ \E a, b \in DOMAIN Reported :
           /\ a # b
           /\ MfrKey(Reported[a].name) = MfrKey(Reported[b].name)
           /\ Reported[a].code = Reported[b].code

\* all_mfrs after the whole loop over a list of candidates.
RECURSIVE MergeAll(_, _)
MergeAll(entries, list) ==
    IF list = <<>> THEN entries
    ELSE MergeAll(MergeCandidate(entries, Head(list)), Tail(list))

\* The mapping {normalised name -> set of codes} of merged entries.
KeyToCodes(entries) ==
    {<<entries[i].key, Range(entries[i].codes)>> : i \in DOMAIN entries}

\* The mapping {display name -> set of codes} of merged entries.
NameToCodes(entries) ==
    {<<entries[i].name, Range(entries[i].codes)>> : i \in DOMAIN entries}

\* The app merge gives the same codes per normalised name in either site
\* order.
AppMergeCommutativeByKey ==
    Merged =>
        KeyToCodes(all_mfrs)
            = KeyToCodes(MergeAll(<<>>, mfrs.guidecom \o mfrs.compuzone))

\* The app merge gives the same codes per display name in either site order.
AppMergeCommutativeByDisplayName ==
    Merged =>
        NameToCodes(all_mfrs)
            = NameToCodes(MergeAll(<<>>, mfrs.guidecom \o mfrs.compuzone))

----
(***************************************************************************)
(* total.py: IntegratedSearcher.get_all_brands.                            *)
(***************************************************************************)

MaxSiteBrands == 2

\* The brands returned are cut to this many.
MaxBrandsReturned == 15

BrandLists == TextsUpTo(Candidates, MaxSiteBrands)

\* What a site's get_search_options call can do: return a list or None, or
\* raise.
BrandOutcomes ==
    [state : {"returned"}, value : BrandLists]
        \cup [state : {"returned_none", "raised"}, value : {<<>>}]

\* The characters of names in code point order.
CharOrder ==
    <<"\t", "\n", " ", "(", ")", "*", "+", ",", "-", ".", "/">> \o DigitChars
        \o UpperChars \o <<"[", "]", "_">> \o LowerChars \o <<"~">>

CodePoint(c) == CHOOSE i \in DOMAIN CharOrder : CharOrder[i] = c

\* a < b for strings: decided by the first position where they differ,
\* else by their lengths.
TextLess(a, b) ==
    LET shared == 1..(IF Len(a) < Len(b) THEN Len(a) ELSE Len(b))
    IN IF \E i \in shared : a[i] # b[i]
       THEN LET i == CHOOSE k \in shared :
                         a[k] # b[k] /\ \A j \in 1..(k - 1) : a[j] = b[j]
            IN CodePoint(a[i]) < CodePoint(b[i])
       ELSE Len(a) < Len(b)

\* The position of the item of all_brands stored under name, 0 if none.
ItemAt(items, name) ==
    IF \E i \in DOMAIN items : items[i].name = name
    THEN CHOOSE i \in DOMAIN items : items[i].name = name
    ELSE 0

\* all_brands[brand['name']] = brand['code']
PutBrand(items, brand) ==
    LET at == ItemAt(items, brand.name)
    IN IF at = 0 THEN Append(items, [name |-> brand.name, code |-> brand.code])
       ELSE [items EXCEPT ![at].code = brand.code]

\* `for brand in site_list: all_brands[brand['name']] = brand['code']`
RECURSIVE PutBrands(_, _)
PutBrands(items, list) ==
    IF list = <<>> THEN items
    ELSE PutBrands(PutBrand(items, Head(list)), Tail(list))

\* sorted(all_brands.items()): the keys are distinct, so the order is the
\* order of the names.
RECURSIVE SortedItems(_)
SortedItems(items) ==
    IF items = <<>> THEN <<>>
    ELSE LET least == CHOOSE i \in DOMAIN items :
                          \A j \in DOMAIN items :
                              j = i \/ TextLess(items[i].name, items[j].name)
             rest == [k \in 1..(Len(items) - 1) |->
                         IF k < least THEN items[k] ELSE items[k + 1]]
         IN <<items[least]>> \o SortedItems(rest)

\* unique_brands[:15]
FirstBrands(list) ==
    IF Len(list) > MaxBrandsReturned THEN SubSeq(list, 1, MaxBrandsReturned)
    ELSE list

InitBrands ==
    /\ ProductIdle
    /\ FanIdle
    /\ ParserIdle
    /\ GroupIdle
    /\ MergeIdle
    /\ BrandIdle
    /\ DedupIdle
    /\ DisplayIdle
    /\ SearchIdle
    /\ SelectIdle
    /\ CapacityIdle
    /\ OptionsIdle
    /\ DebugIdle
    /\ BucketsIdle
    /\ RequestsIdle
    /\ WorkersIdle
    /\ RowsIdle
    /\ KeywordIdle
    /\ SessionIdle

\* The try block of the i-th site: its brands are put into all_brands; a
\* call that raises (or a None that cannot be iterated) is passed over.
CollectBrands(i) ==
    /\ bPc = i
    /\ \E out \in BrandOutcomes :
           IF out.state = "returned"
           THEN /\ site_brands' =
                       [site_brands EXCEPT ![IntegratedSites[i]] = out.value]
                /\ all_brands' = PutBrands(all_brands, out.value)
           ELSE UNCHANGED <<site_brands, all_brands>>
    /\ bPc' = i + 1
    /\ UNCHANGED <<brands, notBrand>>

\* unique_brands from sorted(all_brands.items()), and the return of its
\* first 15.
SortAndReturn ==
    /\ bPc = Len(IntegratedSites) + 1
    /\ brands' = FirstBrands(SortedItems(all_brands))
    /\ bPc' = bPc + 1
    /\ UNCHANGED <<site_brands, all_brands, notBrand>>

NextBrands ==
    \/ \E i \in DOMAIN IntegratedSites : CollectBrands(i)
    \/ SortAndReturn

SpecBrands == InitBrands /\ [][NextBrands]_vars

BrandsReturned == bPc = Len(IntegratedSites) + 2

\* The mapping {name -> set of codes} of a returned brand list.
BrandMap(list) == {<<list[i].name, {list[i].code}>> : i \in DOMAIN list}

\* What get_all_brands returns when the sites are queried in this order.
BrandsInOrder(order) ==
    LET lists == [i \in DOMAIN order |-> site_brands[order[i]]]
    IN FirstBrands(SortedItems(
           PutBrands(PutBrands(PutBrands(<<>>, lists[1]), lists[2]), lists[3])))

\* The site orders that differ from the code's by exchanging two sites.
SwappedOrders ==
    { <<"compuzone", "danawa", "guidecom">>,
      <<"guidecom", "compuzone", "danawa">>,
      <<"danawa", "guidecom", "compuzone">> }

\* C7: the manufacturer merge is commutative in site order: the brands
\* get_all_brands returns map every name to the same set of codes as the
\* merge with two sites' candidate lists taken in the other order.
C7_MergeCommutativeInSiteOrder ==
    BrandsReturned =>
        \A order \in SwappedOrders :
            BrandMap(brands) = BrandMap(BrandsInOrder(order))

\* The codes the sites reported under a name with this normalised form.
SiteCodes(key) ==
    UNION {ReportedCodes(site_brands[s], key) : s \in AllSites}

\* C8: get_all_brands merges the sites' {name, code} pairs by normalised
\* name and retains every distinct code reported under a name: each code a
\* site reported is in the result under that name.
C8_EveryCodeRetained ==
    BrandsReturned =>
        \A s \in AllSites : \A i \in DOMAIN site_brands[s] :
            LET key == MfrKey(site_brands[s][i].name)
            IN /\ Cardinality({j \in DOMAIN brands :
                                   MfrKey(brands[j].name) = key}) = 1
               /\ SiteCodes(key) =
                      {brands[j].code : j \in {k \in DOMAIN brands :
                                            MfrKey(brands[k].name) = key}}

----
(***************************************************************************)
(* compuzone.py: CompuzoneParser._smart_deduplicate_specs with             *)
(* _is_semantic_duplicate, and repeated application of it and of           *)
(* Product._clean_specifications.                                          *)
(***************************************************************************)

\* The length of the run of digits of s that starts at i.
RECURSIVE DigitRunLen(_, _)
DigitRunLen(s, i) ==
    IF i > Len(s) \/ ~IsDigit(s[i]) THEN 0 ELSE 1 + DigitRunLen(s, i + 1)

\* The length of the run of whitespace of s that starts at i.
RECURSIVE SpaceRunLen(_, _)
SpaceRunLen(s, i) ==
    IF i > Len(s) \/ s[i] \notin Whitespace THEN 0
    ELSE 1 + SpaceRunLen(s, i + 1)

\* extract_capacity: re.search(r'(\d+)\s*([KMGT]?B?)', text.upper()), a
\* unit G, K, M or T completed with B; <<>> for None, else <<number, unit>>.
ExtractCapacity(text) ==
    LET u == Upper(text)
    IN IF \A i \in DOMAIN u : ~IsDigit(u[i]) THEN <<>>
       ELSE LET i == CHOOSE k \in DOMAIN u :
                         IsDigit(u[k]) /\ \A j \in 1..(k - 1) : ~IsDigit(u[j])
                n == DigitRunLen(u, i)
                j == i + n + SpaceRunLen(u, i + n)
                prefix == IF j <= Len(u) /\ u[j] \in {"K", "M", "G", "T"}
                          THEN <<u[j]>> ELSE <<>>
                b == j + Len(prefix)
                unit == IF b <= Len(u) /\ u[b] = "B"
                        THEN prefix \o <<"B">> ELSE prefix
            IN << SubSeq(u, i, i + n - 1),
                  IF unit \in {<<"G">>, <<"K">>, <<"M">>, <<"T">>}
                  THEN unit \o <<"B">> ELSE unit >>

\* ['vram', 'memory', 'me-mo-ri' (three Hangul syllables), 'gb', 'tb']
MemoryKeywords ==
    { <<"v", "r", "a", "m">>, <<"m", "e", "m", "o", "r", "y">>,
      <<"me", "mo", "ri">>, <<"g", "b">>, <<"t", "b">> }

HasMemoryKeyword(t) == \E kw \in MemoryKeywords : Contains(t, kw)

\* RTX|GTX|RX|ARC, in the order the pattern tries them.
SeriesNames ==
    << <<"R", "T", "X">>, <<"G", "T", "X">>, <<"R", "X">>, <<"A", "R", "C">> >>

\* The least member of a set of positions, 0 for the empty set.
FirstOf(positions) ==
    IF positions = {} THEN 0
    ELSE CHOOSE i \in positions : \A j \in positions : i <= j

\* name, then \s*, then at least one digit, at position i of u.
SeriesFits(u, name, i) ==
    /\ OccursAt(u, name, i)
    /\ DigitRunLen(u, i + Len(name) + SpaceRunLen(u, i + Len(name))) > 0

\* The first alternative of (RTX|GTX|RX|ARC)\s*(\d+) that matches at
\* position i of u, 0 if none does.
SeriesAt(u, i) ==
    FirstOf({k \in DOMAIN SeriesNames : SeriesFits(u, SeriesNames[k], i)})

\* The groups of the match of alternative k at position i: <<series, number>>.
SeriesGroups(u, name, i) ==
    << name,
       SubSeq(u, i + Len(name) + SpaceRunLen(u, i + Len(name)),
              i + Len(name) + SpaceRunLen(u, i + Len(name))
                + DigitRunLen(u, i + Len(name)
                                   + SpaceRunLen(u, i + Len(name))) - 1) >>

\* The groups of the leftmost match in u (at position i), <<>> for i = 0.
SeriesMatch(u, i) ==
    IF i = 0 THEN <<>> ELSE SeriesGroups(u, SeriesNames[SeriesAt(u, i)], i)

\* extract_series: re.search(r'(RTX|GTX|RX|ARC)\s*(\d+)', text.upper()),
\* <<>> for None.
ExtractSeries(text) ==
    SeriesMatch(Upper(text),
                FirstOf({i \in DOMAIN text : SeriesAt(Upper(text), i) # 0}))

\* `x and y and x == y` for two results that are <<>> when None.
BothAndEqual(x, y) == x # <<>> /\ x = y

\* _is_semantic_duplicate on the lowered, stripped texts t1 and t2.
DuplicateTexts(t1, t2) ==
    \/ t1 = t2
    \/ /\ BothAndEqual(ExtractCapacity(t1), ExtractCapacity(t2))
       /\ HasMemoryKeyword(t1)
       /\ HasMemoryKeyword(t2)
    \/ BothAndEqual(ExtractSeries(t1), ExtractSeries(t2))

\* CompuzoneParser._is_semantic_duplicate
IsSemanticDuplicate(text1, text2) ==
    DuplicateTexts(Strip(Lower(text1)), Strip(Lower(text2)))

\* The position of the first kept part that part duplicates, 0 if none.
FirstDuplicateOf(part, uniqueParts) ==
    FirstOf({i \in DOMAIN uniqueParts :
                 IsSemanticDuplicate(part, uniqueParts[i])})

\* What the loop body does with a part that duplicates the kept part at
\* position at (at = 0: it duplicates none).
KeepPart(uniqueParts, part, at) ==
    IF at = 0 THEN Append(uniqueParts, part)
    ELSE IF Len(part) > Len(uniqueParts[at])
         THEN [uniqueParts EXCEPT ![at] = part]
         ELSE uniqueParts

\* The loop `for part in parts` of _smart_deduplicate_specs.
RECURSIVE UniqueParts(_, _)
UniqueParts(parts, uniqueParts) ==
    IF parts = <<>> THEN uniqueParts
    ELSE UniqueParts(Tail(parts),
             KeepPart(uniqueParts, Head(parts),
                      FirstDuplicateOf(Head(parts), uniqueParts)))

\* [part.strip() for part in specs_text.split(" / ") if part.strip()]
StrippedParts(specsText) ==
    LET raw == SplitOn(specsText, SpecSeparator)
        stripped == [i \in DOMAIN raw |-> Strip(raw[i])]
    IN SelectSeq(stripped, LAMBDA p : p # <<>>)

\* CompuzoneParser._smart_deduplicate_specs
SmartDeduplicateSpecs(specsText) ==
    IF specsText = <<>> THEN specsText
    ELSE LET parts == StrippedParts(specsText)
         IN IF Len(parts) <= 1 THEN specsText
            ELSE Join(UniqueParts(parts, <<>>), SpecSeparator)

MaxFragments == 3

\* Fragments of specification texts: capacities in several spellings, a
\* product series in two spellings, a fragment holding both, a plain word
\* and an empty fragment.
Fragments ==
    { <<"8", "G", "B">>,
      <<"8", "g", "b">>,
      <<"8", " ", "G", " ", "V", "R", "A", "M">>,
      <<"R", "T", "X", " ", "4", "0">>,
      <<"r", "t", "x", "4", "0">>,
      <<"8", "G", "B", " ", "R", "T", "X", " ", "4", "0">>,
      <<"x">>,
      <<>> }

\* The texts made of at most MaxFragments fragments joined by " / ".
DedupInputs ==
    {Join(fs, SpecSeparator) : fs \in TextsUpTo(Fragments, MaxFragments)}

Deduplicators == {"smart", "clean"}

InitDedup ==
    /\ ProductIdle
    /\ FanIdle
    /\ ParserIdle
    /\ GroupIdle
    /\ MergeIdle
    /\ BrandIdle
    /\ dedup \in Deduplicators
    /\ specs_text \in DedupInputs
    /\ once = <<>>
    /\ twice = <<>>
    /\ applied = 0
    /\ DisplayIdle
    /\ SearchIdle
    /\ SelectIdle
    /\ CapacityIdle
    /\ OptionsIdle
    /\ DebugIdle
    /\ BucketsIdle
    /\ RequestsIdle
    /\ WorkersIdle
    /\ RowsIdle
    /\ KeywordIdle
    /\ SessionIdle

Deduplicated(text) ==
    IF dedup = "smart" THEN SmartDeduplicateSpecs(text)
    ELSE CleanSpecifications(text)

\* The function is applied to the text.
Deduplicate ==
    /\ applied = 0
    /\ once' = Deduplicated(specs_text)
    /\ applied' = 1
    /\ UNCHANGED <<dedup, specs_text, twice, notDedup>>

\* The function is applied to its own output.
DeduplicateAgain ==
    /\ applied = 1
    /\ twice' = Deduplicated(once)
    /\ applied' = 2
    /\ UNCHANGED <<dedup, specs_text, once, notDedup>>

NextDedup ==
    \/ Deduplicate
    \/ DeduplicateAgain

SpecDedup == InitDedup /\ [][NextDedup]_vars

\* C9: specification de-duplication is idempotent: for _smart_deduplicate_specs
\* and for _clean_specifications, applying the function to its own output
\* yields that same output.
C9_DedupIdempotent == applied = 2 => twice = once

\* _clean_specifications alone is idempotent.
CleanSpecificationsIdempotent ==
    (applied = 2 /\ dedup = "clean") => twice = once

\* The fragments of a de-duplicated text.
Retained(text) == StrippedParts(text)

\* C10: in the output of _smart_deduplicate_specs no two retained fragments
\* are semantically equivalent, and of two equivalent fragments of the input
\* the shorter one is not retained.
C10_NoEquivalentFragmentsRetained ==
    (applied >= 1 /\ dedup = "smart") =>
        LET out == Retained(once)
            parts == StrippedParts(specs_text)
        IN /\ \A i, j \in DOMAIN out :
                  i # j => ~IsSemanticDuplicate(out[i], out[j])
           /\ \A i, j \in DOMAIN parts :
                  (/\ IsSemanticDuplicate(parts[i], parts[j])
                   /\ Len(parts[i]) < Len(parts[j])
                   /\ Len(parts) > 1)
                      => parts[i] \notin Range(out)

----
(***************************************************************************)
(* app.py: the result table: extract_price, min_price, the price sort and  *)
(* the lowest-price badge.                                                 *)
(***************************************************************************)

\* float('inf') is <<>>, the integer n is <<n>>.
Infinity == <<>>

\* A variant of extract_price that ranks a price without digits as 0.
ExtractPriceZeroDefault(price) ==
    IF DigitsOf(price) = <<>> THEN <<0>> ELSE <<TextToNat(DigitsOf(price))>>

\* extract_price: int(re.sub(r'[^\d]', '', product.price)), or float('inf')
\* when no digit is left.
ExtractPrice(price) ==
    IF DigitsOf(price) = <<>> THEN Infinity ELSE <<TextToNat(DigitsOf(price))>>

\* a < b for two ranks.
RankLess(a, b) == a # Infinity /\ (b = Infinity \/ a[1] < b[1])

\* min(valid_prices) if valid_prices else None, over the finite ranks.
MinPrice(ranks) ==
    IF \A i \in DOMAIN ranks : ranks[i] = Infinity THEN <<>>
    ELSE CHOOSE r \in Range(ranks) :
             r # Infinity /\ \A i \in DOMAIN ranks : ~RankLess(ranks[i], r)

\* sorted(list, key=extract_price): stable insertion of p into a sorted list.
RECURSIVE InsertByPrice(_, _)
InsertByPrice(list, p) ==
    IF list = <<>> THEN <<p>>
    ELSE IF RankLess(ExtractPrice(p.price), ExtractPrice(list[Len(list)].price))
         THEN Append(InsertByPrice(SubSeq(list, 1, Len(list) - 1), p),
                     list[Len(list)])
         ELSE Append(list, p)

RECURSIVE SortedByPrice(_)
SortedByPrice(list) ==
    IF list = <<>> THEN <<>>
    ELSE InsertByPrice(SortedByPrice(SubSeq(list, 1, Len(list) - 1)),
                       list[Len(list)])

\* The truth value Python gives min_price: None and 0 are false.
Truthy(m) == m # <<>> /\ m[1] # 0

\* is_lowest = min_price and price_num == min_price
\*             and price_num != float('inf')
IsLowest(m, priceNum) == Truthy(m) /\ priceNum = m /\ priceNum # Infinity

MaxShown == 3

\* The amounts of the priced products; their texts order otherwise than
\* their values ("999" and "1000").
Amounts == {0, 1, 999, 1000, 12345}

\* The price texts the parsers hand to Product for a product without a price.
StatusTexts == { SoldOut, <<"jeon", "hwa", "sang", "dam">>, <<"S", "O", "L", "D">> }

\* The price fields of Products: Product._standardize_price of the amount's
\* digits or of the status text; amount is <<n>> or, without a price, <<>>.
ShownPrices ==
    {[price |-> StandardizePrice(NatToText(n)), amount |-> <<n>>] : n \in Amounts}
        \cup {[price |-> StandardizePrice(t), amount |-> <<>>] : t \in StatusTexts}

ShownLists ==
    {[i \in DOMAIN ps |-> [id |-> i, price |-> ps[i].price,
                           amount |-> ps[i].amount]] :
         ps \in TextsUpTo(ShownPrices, MaxShown)}

InitDisplay ==
    /\ ProductIdle
    /\ FanIdle
    /\ ParserIdle
    /\ GroupIdle
    /\ MergeIdle
    /\ BrandIdle
    /\ DedupIdle
    /\ shown \in ShownLists
    /\ min_price = <<>>
    /\ sorted_products = <<>>
    /\ rows = <<>>
    /\ vPc = "idle"
    /\ SearchIdle
    /\ SelectIdle
    /\ CapacityIdle
    /\ OptionsIdle
    /\ DebugIdle
    /\ BucketsIdle
    /\ RequestsIdle
    /\ WorkersIdle
    /\ RowsIdle
    /\ KeywordIdle
    /\ SessionIdle

\* `if st.session_state.products:` and the valid_prices loop with min_price.
FindMinPrice ==
    /\ vPc = "idle"
    /\ shown # <<>>
    /\ min_price' = MinPrice([i \in DOMAIN shown |-> ExtractPrice(shown[i].price)])
    /\ vPc' = "sort"
    /\ UNCHANGED <<shown, sorted_products, rows, notDisplay>>

\* sorted_products = sorted(st.session_state.products, key=extract_price)
SortProducts ==
    /\ vPc = "sort"
    /\ sorted_products' = SortedByPrice(shown)
    /\ vPc' = "rows"
    /\ UNCHANGED <<shown, min_price, rows, notDisplay>>

\* The loop that builds data: one row per sorted product, with is_lowest.
BuildRows ==
    /\ vPc = "rows"
    /\ rows' = [i \in DOMAIN sorted_products |->
                   [product |-> sorted_products[i],
                    is_lowest |-> IsLowest(min_price,
                                     ExtractPrice(sorted_products[i].price))]]
    /\ vPc' = "done"
    /\ UNCHANGED <<shown, min_price, sorted_products, notDisplay>>

NextDisplay ==
    \/ FindMinPrice
    \/ SortProducts
    \/ BuildRows

SpecDisplay == InitDisplay /\ [][NextDisplay]_vars

\* C11: the rank of a priced product is its amount, so a smaller amount has
\* the smaller rank; a product whose price holds no digit has rank infinity,
\* above every finite rank; and the ascending sort is a permutation of the
\* products in which every priced product precedes every product without a
\* price and the priced products are in ascending amount.
C11_PriceRankOrders ==
    vPc \in {"rows", "done"} =>
        /\ \A i, j \in DOMAIN shown :
               LET ri == ExtractPrice(shown[i].price)
                   rj == ExtractPrice(shown[j].price)
               IN /\ (shown[i].amount # <<>> /\ shown[j].amount # <<>>
                        /\ shown[i].amount[1] < shown[j].amount[1])
                      => RankLess(ri, rj)
                  /\ shown[i].amount = <<>> => ri = Infinity
                  /\ (shown[i].amount = <<>> /\ shown[j].amount # <<>>)
                      => RankLess(rj, ri)
        /\ Len(sorted_products) = Len(shown)
        /\ \A k \in DOMAIN shown :
               Cardinality({i \in DOMAIN sorted_products :
                                sorted_products[i] = shown[k]}) = 1
        /\ \A i, j \in DOMAIN sorted_products :
               i < j =>
                   /\ sorted_products[i].amount = <<>>
                          => sorted_products[j].amount = <<>>
                   /\ (sorted_products[i].amount # <<>>
                         /\ sorted_products[j].amount # <<>>)
                          => sorted_products[i].amount[1]
                                 <= sorted_products[j].amount[1]

\* C11 witness: a sorted table of three products given as a product without
\* a price, then 1,000 and then 999.
C11_Witness ==
    /\ vPc = "done"
    /\ Len(shown) = 3
    /\ shown[1].amount = <<>>
    /\ shown[2].amount = <<1000>>
    /\ shown[3].amount = <<999>>
    /\ sorted_products[1].id = 3
    /\ sorted_products[3].id = 1

\* C12: when some product has a finite rank, a product is badged exactly
\* when its rank equals the minimum finite rank, whatever that minimum is,
\* and no product of infinite rank is badged.
C12_BadgeExactlyAtMinimum ==
    vPc = "done" =>
        /\ \A i \in DOMAIN rows : rows[i].product.amount = <<>>
               => ~rows[i].is_lowest
        /\ (\E k \in DOMAIN shown : shown[k].amount # <<>>) =>
               \A i \in DOMAIN rows :
                   rows[i].is_lowest <=>
                       /\ rows[i].product.amount # <<>>
                       /\ \A k \in DOMAIN shown :
                              shown[k].amount # <<>> =>
                                  rows[i].product.amount[1] <= shown[k].amount[1]


(***************************************************************************)
(* Product search of a site parser: the manufacturer filter, the          *)
(* de-duplication and the limit.                                           *)
(*                                                                         *)
(* A row of a site response is modelled by the name of the product it      *)
(* parses to; the row <<>> parses to no product.  The keywords drawn name  *)
(* no capacity, so compuzone's capacity filter passes every row here (the  *)
(* capacity filter is modelled on its own further down).                   *)
(***************************************************************************)

\* code.lower().replace("_", " ").strip()
CodeLower(code) ==
    Strip([i \in DOMAIN Lower(code) |->
              IF Lower(code)[i] = "_" THEN " " ELSE Lower(code)[i]])

\* compuzone.py _check_brand_aliases: alias_map
alias_map == <<
    [brand_key |-> <<"a", "m", "d">>,
     aliases |-> <<<<"a", "m", "d">>, <<"ra", "yi", "jen">>, <<"r", "y", "z", "e", "n">>>>],   \* amd
    [brand_key |-> <<"i", "n", "t", "e", "l">>,
     aliases |-> <<<<"i", "n", "t", "e", "l">>, <<"in", "tel">>, <<"ko", "eo">>, <<"c", "o", "r", "e">>>>],   \* intel
    [brand_key |-> <<"s", "a", "m", "s", "u", "n", "g">>,
     aliases |-> <<<<"sam", "seong">>, <<"s", "a", "m", "s", "u", "n", "g">>, <<"sam", "seong", "jeon", "ja">>>>],   \* samsung
    [brand_key |-> <<"n", "v", "i", "d", "i", "a">>,
     aliases |-> <<<<"n", "v", "i", "d", "i", "a">>, <<"ji", "po", "seu">>, <<"g", "e", "f", "o", "r", "c", "e">>, <<"r", "t", "x">>, <<"g", "t", "x">>>>],   \* nvidia
    [brand_key |-> <<"a", "s", "u", "s">>,
     aliases |-> <<<<"a", "s", "u", "s">>, <<"eh", "yi", "su", "seu">>>>],   \* asus
    [brand_key |-> <<"m", "s", "i">>,
     aliases |-> <<<<"m", "s", "i">>>>],   \* msi
    [brand_key |-> <<"g", "i", "g", "a", "b", "y", "t", "e">>,
     aliases |-> <<<<"g", "i", "g", "a", "b", "y", "t", "e">>, <<"gi", "ga", "ba", "yi", "teu">>>>],   \* gigabyte
    [brand_key |-> <<"w", "e", "s", "t", "e", "r", "n", " ", "d", "i", "g", "i", "t", "a", "l">>,
     aliases |-> <<<<"w", "d">>, <<"w", "e", "s", "t", "e", "r", "n", " ", "d", "i", "g", "i", "t", "a", "l">>, <<"we", "seu", "teon", "di", "ji", "teol">>>>],   \* western digital
    [brand_key |-> <<"s", "e", "a", "g", "a", "t", "e">>,
     aliases |-> <<<<"s", "e", "a", "g", "a", "t", "e">>, <<"si", "ge", "yi", "teu">>>>]   \* seagate
    >>

\* some alias of the list occurs in the name
AnyAliasIn(aliases, product_name_lower) ==
    \E j \in DOMAIN aliases : Contains(product_name_lower, aliases[j])

\* compuzone.py _check_brand_aliases
CheckBrandAliases(product_name_lower, code_lower) ==
    \E g \in DOMAIN alias_map :
        /\ code_lower \in Range(alias_map[g].aliases)
        /\ AnyAliasIn(alias_map[g].aliases, product_name_lower)

\* one turn of the loop over maker_codes in _check_brand_match
CodeMatches(product_name_lower, code_lower) ==
    \/ Contains(product_name_lower, code_lower)
    \/ CheckBrandAliases(product_name_lower, code_lower)

\* compuzone.py _check_brand_match
CheckBrandMatch(product_name, codes) ==
    IF codes = <<>> THEN TRUE
    ELSE \E i \in DOMAIN codes :
             CodeMatches(Lower(product_name), CodeLower(codes[i]))

\* guidecom.py _normalize_brand: the characters of [\s._/-]
BrandSeparators == Whitespace \cup {".", "_", "/", "-"}

\* re.sub(r"[\s._/-]+", " ", t): each run of separators becomes one space
CollapseSeparators(t) ==
    LET kept == SelectSeq([i \in DOMAIN t |-> i],
                    LAMBDA i : \/ t[i] \notin BrandSeparators
                               \/ i = 1
                               \/ t[i - 1] \notin BrandSeparators)
        collapsed == [k \in DOMAIN kept |->
                         IF t[kept[k]] \in BrandSeparators THEN " "
                         ELSE t[kept[k]]]
    IN SubSeq(collapsed, 1, Len(collapsed))

\* guidecom.py _normalize_brand: aliases
normalize_aliases == <<
    [alias |-> <<"w", "d">>,
     brand |-> <<"w", "e", "s", "t", "e", "r", "n", " ", "d", "i", "g", "i", "t", "a", "l">>],   \* wd
    [alias |-> <<"we", "seu", "teon", " ", "di", "ji", "teol">>,
     brand |-> <<"w", "e", "s", "t", "e", "r", "n", " ", "d", "i", "g", "i", "t", "a", "l">>],   \* weseuteon dijiteol
    [alias |-> <<"eh", "yi", "su", "seu">>,
     brand |-> <<"a", "s", "u", "s">>],   \* ehyisuseu
    [alias |-> <<"gi", "ga", "ba", "yi", "teu">>,
     brand |-> <<"g", "i", "g", "a", "b", "y", "t", "e">>],   \* gigabayiteu
    [alias |-> <<"jo", "tek">>,
     brand |-> <<"z", "o", "t", "a", "c">>],   \* jotek
    [alias |-> <<"en", "bi", "di", "ah">>,
     brand |-> <<"n", "v", "i", "d", "i", "a">>],   \* enbidiah
    [alias |-> <<"sam", "seong">>,
     brand |-> <<"sam", "seong", "jeon", "ja">>],   \* samseong
    [alias |-> <<"s", "a", "m", "s", "u", "n", "g">>,
     brand |-> <<"sam", "seong", "jeon", "ja">>],   \* samsung
    [alias |-> <<"g", " ", "s", "k", "i", "l", "l">>,
     brand |-> <<"g", "s", "k", "i", "l", "l">>],   \* g skill
    [alias |-> <<"t", "p", "-", "l", "i", "n", "k">>,
     brand |-> <<"t", "p", " ", "l", "i", "n", "k">>]   \* tp-link
    >>

\* aliases.get(t, t)
AliasOrSelf(t) ==
    IF \E k \in DOMAIN normalize_aliases : normalize_aliases[k].alias = t
    THEN normalize_aliases[CHOOSE k \in DOMAIN normalize_aliases :
                              normalize_aliases[k].alias = t].brand
    ELSE t

\* guidecom.py _normalize_brand
NormalizeBrand(text) == AliasOrSelf(Strip(CollapseSeparators(Lower(text))))

\* guidecom.py _filter_by_maker: brand_aliases
brand_aliases == <<
    [brand |-> <<"sam", "seong">>,
     aliases |-> <<<<"s", "a", "m", "s", "u", "n", "g">>, <<"sam", "seong", "jeon", "ja">>, <<"s", "e", "c">>>>],   \* samseong
    [brand |-> <<"l", "g">>,
     aliases |-> <<<<"l", "g", "jeon", "ja">>, <<"l", "g", "e">>>>],   \* lg
    [brand |-> <<"h", "p">>,
     aliases |-> <<<<"h", "e", "w", "l", "e", "t", "t">>, <<"p", "a", "c", "k", "a", "r", "d">>>>],   \* hp
    [brand |-> <<"a", "s", "u", "s">>,
     aliases |-> <<<<"eh", "yi", "su", "seu">>, <<"a", "s", "u", "s", "t", "e", "k">>>>],   \* asus
    [brand |-> <<"m", "s", "i">>,
     aliases |-> <<<<"m", "i", "c", "r", "o", "-", "s", "t", "a", "r">>>>],   \* msi
    [brand |-> <<"w", "e", "s", "t", "e", "r", "n", " ", "d", "i", "g", "i", "t", "a", "l">>,
     aliases |-> <<<<"w", "d">>, <<"w", "e", "s", "t", "e", "r", "n">>, <<"d", "i", "g", "i", "t", "a", "l">>>>],   \* western digital
    [brand |-> <<"s", "e", "a", "g", "a", "t", "e">>,
     aliases |-> <<<<"si", "ge", "yi", "teu">>>>],   \* seagate
    [brand |-> <<"k", "i", "n", "g", "s", "t", "o", "n">>,
     aliases |-> <<<<"king", "seu", "ton">>>>]   \* kingston
    >>

\* guidecom.py _filter_by_maker: the brands looked for in the search keyword
keyword_brands == <<
    <<"sam", "seong">>,
    <<"s", "a", "m", "s", "u", "n", "g">>,
    <<"l", "g">>,
    <<"i", "n", "t", "e", "l">>,
    <<"a", "m", "d">>,
    <<"n", "v", "i", "d", "i", "a">>,
    <<"a", "s", "u", "s">>,
    <<"m", "s", "i">>
    >>

\* guidecom.py _filter_by_maker, step 3: [brand] + aliases of every entry
\* the code names
BrandAliasMatches(product_name_lower, code_lower) ==
    \E g \in DOMAIN brand_aliases :
        /\ \/ brand_aliases[g].brand = code_lower
           \/ code_lower \in Range(brand_aliases[g].aliases)
        /\ AnyAliasIn(<<brand_aliases[g].brand>> \o brand_aliases[g].aliases,
                      product_name_lower)

\* guidecom.py _filter_by_maker, step 4: potential_brands, the brands of the
\* search keyword, looked for in the product name
KeywordBrandMatches(product_name_lower, search_kw) ==
    \E b \in DOMAIN keyword_brands :
        /\ Contains(search_kw, keyword_brands[b])
        /\ Contains(product_name_lower, keyword_brands[b])

\* one turn of the loop over maker_codes in _filter_by_maker
MakerMatches(product_name_lower, code_lower, search_kw) ==
    \/ Contains(product_name_lower, code_lower)
    \/ Contains(product_name_lower, NormalizeBrand(code_lower))
    \/ BrandAliasMatches(product_name_lower, code_lower)
    \/ KeywordBrandMatches(product_name_lower, search_kw)

\* guidecom.py _filter_by_maker; current_keyword is
\* self._current_search_keyword
FilterByMaker(product_name, codes, current_keyword) ==
    IF codes = <<>> THEN TRUE
    ELSE \E i \in DOMAIN codes :
             MakerMatches(Lower(product_name), CodeLower(codes[i]),
                          Lower(current_keyword))

\* compuzone.py _parse_product_item_with_options for a row without options
\* and a keyword without capacity: the products the row contributes
ParseProductItemWithOptions(item, codes) ==
    IF item = <<>> THEN <<>>
    ELSE IF codes # <<>> /\ ~CheckBrandMatch(item, codes) THEN <<>>
    ELSE <<item>>

\* compuzone.py _parse_all_products: the loop from row i on, with its break
\* at limit * 3
RECURSIVE ParseAllFrom(_, _, _, _, _)
\* after the row's products were appended: the break, else the next row
ParseAllNext(items, i, acc, codes, lim) ==
    IF Len(acc) >= lim * 3 THEN acc
    ELSE ParseAllFrom(items, i + 1, acc, codes, lim)

ParseAllFrom(items, i, acc, codes, lim) ==
    IF i > Len(items) THEN acc
    ELSE ParseAllNext(items, i,
                      acc \o ParseProductItemWithOptions(items[i], codes),
                      codes, lim)

ParseAllProducts(items, codes, lim) == ParseAllFrom(items, 1, <<>>, codes, lim)

\* compuzone.py _finalize_search_results: the de-duplication loop
RECURSIVE UniqueProducts(_, _)
UniqueProducts(products_in, unique_products) ==
    IF products_in = <<>> THEN unique_products
    ELSE IF Head(products_in) = <<>>
              \/ Head(products_in) \in Range(unique_products)
         THEN UniqueProducts(Tail(products_in), unique_products)
         ELSE UniqueProducts(Tail(products_in),
                             Append(unique_products, Head(products_in)))

\* unique_products[:limit]
FirstN(s, n) == SubSeq(s, 1, IF Len(s) < n THEN Len(s) ELSE n)

\* compuzone.py _finalize_search_results
FinalizeSearchResults(products_in, lim) ==
    IF products_in = <<>> THEN <<>>
    ELSE FirstN(UniqueProducts(products_in, <<>>), lim)

\* guidecom.py search_products: the loop over rows from row i on
RECURSIVE CollectFrom(_, _, _, _, _, _)
CollectFrom(rows_in, i, out, codes, current_keyword, lim) ==
    IF i > Len(rows_in) THEN out
    ELSE IF rows_in[i] = <<>> THEN
             CollectFrom(rows_in, i + 1, out, codes, current_keyword, lim)
    ELSE IF ~FilterByMaker(rows_in[i], codes, current_keyword) THEN
             CollectFrom(rows_in, i + 1, out, codes, current_keyword, lim)
    ELSE IF Len(out) + 1 >= lim THEN Append(out, rows_in[i])
    ELSE CollectFrom(rows_in, i + 1, Append(out, rows_in[i]), codes,
                     current_keyword, lim)

\* ---- inputs ----
MaxRows == 3
SearchStrategies == 3

IntelCore == <<"[", "I", "n", "t", "e", "l", "]", " ", "C", "o", "r", "e", " ", "i", "9", "-", "1", "4", "9", "0", "0", "K">>   \* "[Intel] Core i9-14900K"
AmdRyzen == <<"[", "A", "M", "D", "]", " ", "R", "y", "z", "e", "n", " ", "9", " ", "9", "9", "5", "0", "X">>     \* "[AMD] Ryzen 9 9950X"
AmdRaijen == <<"A", "M", "D", " ", "ra", "yi", "jen", " ", "9", " ", "9", "9", "5", "0", "X">>    \* "AMD raijen 9 9950X"
SamsungEvo == <<"[", "sam", "seong", "jeon", "ja", "]", " ", "9", "9", "0", " ", "E", "V", "O">>   \* "[samseongjeonja] 990 EVO"

RowNames == {<<>>, IntelCore, AmdRyzen, AmdRaijen, SamsungEvo}
RowLists == UNION {[1..n -> RowNames] : n \in 0..MaxRows}

SearchKeywords == {<<"c", "p", "u">>, <<"i", "n", "t", "e", "l", " ", "c", "p", "u">>}   \* "cpu", "intel cpu"
MakerFilters == {<<>>, <<<<"A", "M", "D">>>>, <<<<"S", "A", "M", "S", "U", "N", "G">>>>}   \* [], ["AMD"], ["SAMSUNG"]
Limits == {1, 2}

InitSearch ==
    /\ qSite \in {"compuzone", "guidecom"}
    /\ qKeyword \in SearchKeywords
    /\ maker_codes \in MakerFilters
    /\ limit \in Limits
    /\ strategy = 0
    /\ product_items = <<>>
    /\ all_products = <<>>
    /\ found = <<>>
    /\ qPc = "start"
    /\ ProductIdle
    /\ FanIdle
    /\ ParserIdle
    /\ GroupIdle
    /\ MergeIdle
    /\ BrandIdle
    /\ DedupIdle
    /\ DisplayIdle
    /\ SelectIdle
    /\ CapacityIdle
    /\ OptionsIdle
    /\ DebugIdle
    /\ BucketsIdle
    /\ RequestsIdle
    /\ WorkersIdle
    /\ RowsIdle
    /\ KeywordIdle
    /\ SessionIdle

\* compuzone.py search_products: the visit of the search page; a failure
\* returns []
CzVisitSearchPage ==
    /\ qSite = "compuzone" /\ qPc = "start"
    /\ \E ok \in BOOLEAN :
          IF ok THEN /\ strategy' = 1
                     /\ qPc' = "strategies"
                     /\ found' = found
                ELSE /\ found' = <<>>
                     /\ qPc' = "done"
                     /\ strategy' = strategy
    /\ UNCHANGED <<qSite, qKeyword, maker_codes, limit, product_items,
                   all_products, notSearch>>

\* compuzone.py search_products: one turn of the loop over the strategies;
\* a failed call and a response without rows are the empty row list.  The
\* rows of a turn that yields nothing are dead once the loop continues.
CzTryStrategy ==
    /\ qSite = "compuzone" /\ qPc = "strategies"
    /\ \E items \in RowLists :
          /\ all_products' = ParseAllProducts(items, maker_codes, limit)
          /\ IF all_products' # <<>>
             THEN qPc' = "finalize" /\ strategy' = strategy
                  /\ product_items' = items
             ELSE IF strategy = SearchStrategies
             THEN qPc' = "finalize" /\ strategy' = strategy
                  /\ product_items' = items
             ELSE qPc' = qPc /\ strategy' = strategy + 1
                  /\ product_items' = <<>>
    /\ UNCHANGED <<qSite, qKeyword, maker_codes, limit, found, notSearch>>

\* compuzone.py search_products: return self._finalize_search_results(...)
CzFinalize ==
    /\ qSite = "compuzone" /\ qPc = "finalize"
    /\ found' = FinalizeSearchResults(all_products, limit)
    /\ qPc' = "done"
    /\ UNCHANGED <<qSite, qKeyword, maker_codes, limit, strategy,
                   product_items, all_products, notSearch>>

\* guidecom.py search_products; a failed fetch is the empty row list
GcSearch ==
    /\ qSite = "guidecom" /\ qPc = "start"
    /\ \E items \in RowLists :
          /\ product_items' = items
          /\ found' = IF items = <<>> THEN <<>>
                      ELSE CollectFrom(items, 1, <<>>, maker_codes, qKeyword,
                                       limit)
    /\ qPc' = "done"
    /\ UNCHANGED <<qSite, qKeyword, maker_codes, limit, strategy,
                   all_products, notSearch>>

NextSearch ==
    \/ CzVisitSearchPage
    \/ CzTryStrategy
    \/ CzFinalize
    \/ GcSearch

SpecSearch == InitSearch /\ [][NextSearch]_vars


\* ---- properties of the manufacturer filter ----

\* the names a filter token stands for: the token, its normalised brand and
\* the aliases either parser knows for it
KnownNames(code) ==
    {CodeLower(code), NormalizeBrand(CodeLower(code))}
    \cup UNION {Range(alias_map[g].aliases) : g \in
                   {h \in DOMAIN alias_map :
                       CodeLower(code) \in Range(alias_map[h].aliases)}}
    \cup UNION {Range(brand_aliases[g].aliases) \cup {brand_aliases[g].brand} :
                   g \in {h \in DOMAIN brand_aliases :
                       \/ brand_aliases[h].brand = CodeLower(code)
                       \/ CodeLower(code) \in Range(brand_aliases[h].aliases)}}

\* the name contains, case-insensitively, a token of the filter or a known
\* alias of one
CarriesSelectedBrand(product_name, codes) ==
    \E i \in DOMAIN codes : \E a \in KnownNames(codes[i]) :
        Contains(Lower(product_name), a)

OnlyAmd == <<<<"A", "M", "D">>>>

\* the rows of the response that parse to a product
ParsedRows == {product_items[i] : i \in DOMAIN product_items} \ {<<>>}

\* C13: manufacturer filtering in a parser's product search, for every search
\* keyword: with the filter ["AMD"] the row "[Intel] Core i9-14900K" is not
\* returned while "[AMD] Ryzen 9 9950X" and "AMD raijen 9 9950X" are (as far
\* as the limit allows); with a non-empty filter every returned row has a
\* name containing a filter token or a known alias of one; with an empty
\* filter every row is returned (as far as the limit allows).
C13_ManufacturerFilter ==
    qPc = "done" =>
        /\ maker_codes = OnlyAmd =>
              /\ IntelCore \notin Range(found)
              /\ Len(found) < limit =>
                    (ParsedRows \cap {AmdRyzen, AmdRaijen}) \subseteq Range(found)
        /\ maker_codes # <<>> =>
              \A i \in DOMAIN found :
                  CarriesSelectedBrand(found[i], maker_codes)
        /\ (maker_codes = <<>> /\ Len(found) < limit) =>
              ParsedRows \subseteq Range(found)

\* the same statement for compuzone's parser alone
CompuzoneManufacturerFilter == qSite = "compuzone" => C13_ManufacturerFilter


\* ---- properties of the result list of search_products ----

\* no two elements of the list are the same name
NoTwoSameName(list) ==
    \A i, j \in DOMAIN list : list[i] = list[j] => i = j

\* C16: for every keyword, filter and limit the list returned by a parser's
\* search_products holds no two products with the same name and at most
\* `limit` elements.
C16_UniqueNamesWithinLimit ==
    qPc = "done" => (NoTwoSameName(found) /\ Len(found) <= limit)

\* the same statement for compuzone's parser alone
CompuzoneUniqueNamesWithinLimit ==
    qSite = "compuzone" => C16_UniqueNamesWithinLimit

\* guidecom's parser keeps the limit
GuidecomWithinLimit ==
    (qSite = "guidecom" /\ qPc = "done") => Len(found) <= limit

(***************************************************************************)
(* app.py, section 2: the manufacturer form and the product search with    *)
(* the codes of the checked manufacturers.                                 *)
(***************************************************************************)

\* app.py: selected_codes, the codes of the checked manufacturers in the
\* order of the form
RECURSIVE SelectedCodes(_, _, _)
SelectedCodes(mfr_list, i, marks) ==
    IF i > Len(mfr_list) THEN <<>>
    ELSE (IF i \in marks THEN mfr_list[i].codes ELSE <<>>)
         \o SelectedCodes(mfr_list, i + 1, marks)

\* compuzone.py get_unique_products: search_products(keyword, "sale_order",
\* maker_codes, limit=10) on the rows of the strategy that yields, then the
\* de-duplication by name
CompuzoneUniqueLimit == 10
CompuzoneGetUniqueProducts(items, codes) ==
    UniqueProducts(
        FinalizeSearchResults(
            ParseAllProducts(items, codes, CompuzoneUniqueLimit),
            CompuzoneUniqueLimit),
        <<>>)

\* guidecom.py get_unique_products: search_buckets, the target of each
search_buckets == <<3, 4, 3>>
GuidecomUniqueLimit == 10

\* a variant of the loop over the candidates that ignores the bucket's target
RECURSIVE AddCandidatesNoTarget(_, _, _, _)
AddCandidatesNoTarget(candidates, all_results, category_added, target_count) ==
    IF candidates = <<>> THEN all_results
    ELSE IF Head(candidates) = <<>> \/ Head(candidates) \in Range(all_results)
         THEN AddCandidatesNoTarget(Tail(candidates), all_results,
                                    category_added, target_count)
    ELSE AddCandidatesNoTarget(Tail(candidates),
                               Append(all_results, Head(candidates)),
                               category_added + 1, target_count)

\* guidecom.py get_unique_products: the loop over the candidates of one
\* bucket
RECURSIVE AddCandidates(_, _, _, _)
AddCandidates(candidates, all_results, category_added, target_count) ==
    IF candidates = <<>> THEN all_results
    ELSE IF Head(candidates) = <<>> \/ Head(candidates) \in Range(all_results)
         THEN AddCandidates(Tail(candidates), all_results, category_added,
                            target_count)
    ELSE IF category_added + 1 >= target_count
         THEN Append(all_results, Head(candidates))
    ELSE AddCandidates(Tail(candidates), Append(all_results, Head(candidates)),
                       category_added + 1, target_count)

\* guidecom.py get_unique_products: one turn of the loop over search_buckets
SearchBucket(items, all_results, codes, current_keyword, target_count) ==
    AddCandidates(
        IF items = <<>> THEN <<>>
        ELSE CollectFrom(items, 1, <<>>, codes, current_keyword,
                         target_count * 10),
        all_results, 0, target_count)

\* ---- inputs ----
MaxFormRows == 2

IntelCoreI3 == <<"[", "I", "n", "t", "e", "l", "]", " ", "C", "o", "r", "e", " ", "i", "3", "-", "8", "1", "0", "0">>   \* "[Intel] Core i3-8100"

\* what the sites report for a CPU keyword: compuzone the numeric id of its
\* maker checkbox, guidecom the normalised brand name
CompuzoneReports == {<<>>, <<[name |-> <<"A", "M", "D">>, code |-> <<"8">>]>>,
                     <<[name |-> <<"A", "M", "D">>, code |-> <<"8">>],
                       [name |-> <<"I", "N", "T", "E", "L">>, code |-> <<"1">>]>>}
GuidecomReports == {<<>>, <<[name |-> <<"A", "M", "D">>, code |-> <<"a", "m", "d">>]>>,
                    <<[name |-> <<"I", "n", "t", "e", "l">>, code |-> <<"i", "n", "t", "e", "l">>],
                      [name |-> <<"A", "M", "D">>, code |-> <<"a", "m", "d">>]>>}

FormRowNames == {IntelCore, IntelCoreI3, AmdRyzen}
FormRowLists == UNION {[1..n -> FormRowNames] : n \in 0..MaxFormRows}

\* st.session_state.manufacturers after the merge of what the sites report;
\* the form is shown when it is not empty
OfferedForms ==
    {EntryValues(MergeAll(<<>>, cz \o gc)) :
        cz \in CompuzoneReports, gc \in GuidecomReports} \ {<<>>}

InitSelect ==
    /\ offered \in OfferedForms
    /\ checked = {}
    /\ aKeyword \in SearchKeywords
    /\ selected_codes = <<>>
    /\ compuzone_products = <<>>
    /\ guidecom_products = <<>>
    /\ bucket = 0
    /\ returned = {}
    /\ searching_products = FALSE
    /\ session_products = <<>>
    /\ aPc = "form"
    /\ ProductIdle
    /\ FanIdle
    /\ ParserIdle
    /\ GroupIdle
    /\ MergeIdle
    /\ BrandIdle
    /\ DedupIdle
    /\ DisplayIdle
    /\ SearchIdle
    /\ CapacityIdle
    /\ OptionsIdle
    /\ DebugIdle
    /\ BucketsIdle
    /\ RequestsIdle
    /\ WorkersIdle
    /\ RowsIdle
    /\ KeywordIdle
    /\ SessionIdle

\* app.py: the user ticks or unticks the checkbox of manufacturer i
ToggleCheckbox(i) ==
    /\ aPc = "form"
    /\ i \in DOMAIN offered
    /\ checked' = IF i \in checked THEN checked \ {i} ELSE checked \cup {i}
    /\ UNCHANGED <<offered, aKeyword, selected_codes, compuzone_products,
                   guidecom_products, bucket, returned, searching_products,
                   session_products, aPc, notSelect>>

\* app.py: toggle_button, select all unless all are selected
ToggleAll ==
    /\ aPc = "form"
    /\ checked' = IF checked = DOMAIN offered THEN {} ELSE DOMAIN offered
    /\ UNCHANGED <<offered, aKeyword, selected_codes, compuzone_products,
                   guidecom_products, bucket, returned, searching_products,
                   session_products, aPc, notSelect>>

\* app.py: product_search_button; without a selected code the handler warns
\* and stays on the form
SubmitProductSearch ==
    /\ aPc = "form"
    /\ selected_codes' = SelectedCodes(offered, 1, checked)
    /\ session_products' = <<>>
    /\ compuzone_products' = <<>>
    /\ guidecom_products' = <<>>
    /\ returned' = {}
    /\ IF selected_codes' = <<>>
       THEN searching_products' = FALSE /\ aPc' = "form" /\ bucket' = bucket
       ELSE searching_products' = TRUE /\ aPc' = "search" /\ bucket' = 1
    /\ UNCHANGED <<offered, checked, aKeyword, notSelect>>

\* compuzone_parser.get_unique_products in its worker; a call that raises
\* leaves compuzone_products = []
CompuzoneProductsReturn ==
    /\ aPc = "search" /\ "compuzone" \notin returned
    /\ \E items \in FormRowLists :
          compuzone_products' = CompuzoneGetUniqueProducts(items, selected_codes)
    /\ returned' = returned \cup {"compuzone"}
    /\ UNCHANGED <<offered, checked, aKeyword, selected_codes,
                   guidecom_products, bucket, searching_products,
                   session_products, aPc, notSelect>>

\* guidecom_parser.get_unique_products in its worker: one search bucket; the
\* return after the last, all_results[:10]
GuidecomSearchBucket ==
    /\ aPc = "search" /\ "guidecom" \notin returned
    /\ bucket \in DOMAIN search_buckets
    /\ \E items \in FormRowLists :
          guidecom_products' =
              IF bucket < Len(search_buckets)
              THEN SearchBucket(items, guidecom_products, selected_codes,
                                aKeyword, search_buckets[bucket])
              ELSE FirstN(SearchBucket(items, guidecom_products,
                                       selected_codes, aKeyword,
                                       search_buckets[bucket]),
                          GuidecomUniqueLimit)
    /\ bucket' = bucket + 1
    /\ returned' = IF bucket = Len(search_buckets)
                   THEN returned \cup {"guidecom"} ELSE returned
    /\ UNCHANGED <<offered, checked, aKeyword, selected_codes,
                   compuzone_products, searching_products, session_products,
                   aPc, notSelect>>

\* app.py: all_products = compuzone_products + guidecom_products
StoreProducts ==
    /\ aPc = "search" /\ returned = {"compuzone", "guidecom"}
    /\ session_products' = compuzone_products \o guidecom_products
    /\ searching_products' = FALSE
    /\ aPc' = "done"
    /\ UNCHANGED <<offered, checked, aKeyword, selected_codes,
                   compuzone_products, guidecom_products, bucket, returned,
                   notSelect>>

NextSelect ==
    \/ \E i \in 1..2 : ToggleCheckbox(i)
    \/ ToggleAll
    \/ SubmitProductSearch
    \/ CompuzoneProductsReturn
    \/ GuidecomSearchBucket
    \/ StoreProducts

SpecSelect == InitSelect /\ [][NextSelect]_vars

\* C14: after a product search with a non-empty selection every product of
\* the merged result has a name containing the display name, or a known
\* alias, of a checked manufacturer, whatever codes those manufacturers carry.
C14_OnlySelectedManufacturers ==
    aPc = "done" =>
        \A p \in DOMAIN session_products :
            \E i \in checked :
                CarriesSelectedBrand(session_products[p], <<offered[i].name>>)

\* the same statement for keywords that name no brand
OnlySelectedForPlainKeyword == aKeyword = <<"c", "p", "u">> => C14_OnlySelectedManufacturers


(***************************************************************************)
(* compuzone.py: the capacity filter of the option variants.               *)
(***************************************************************************)

\* \w of the regular expressions
IsWordChar(c) == IsWordOrSpace(c) /\ c \notin Whitespace

CapacityUnits == {<<"T", "B">>, <<"G", "B">>, <<"M", "B">>}

\* (TB|GB|MB) at position j of u
UnitAt(u, j) == IF j + 1 <= Len(u) THEN SubSeq(u, j, j + 1) ELSE <<>>

\* (\d+)\s*(TB|GB|MB) matches u from position i on
CapacityAt(u, i) ==
    /\ i \in DOMAIN u
    /\ IsDigit(u[i])
    /\ UnitAt(u, i + DigitRunLen(u, i)
                   + SpaceRunLen(u, i + DigitRunLen(u, i))) \in CapacityUnits

\* the groups of the match that starts at i
CapacityGroups(u, i) ==
    << SubSeq(u, i, i + DigitRunLen(u, i) - 1),
       UnitAt(u, i + DigitRunLen(u, i) + SpaceRunLen(u, i + DigitRunLen(u, i))) >>

\* re.search(r'(\d+)\s*(TB|GB|MB)', u): <<>> for None, else <<number, unit>>
\* of the leftmost match
SearchCapacity(u) ==
    IF \A i \in DOMAIN u : ~CapacityAt(u, i) THEN <<>>
    ELSE CapacityGroups(u, CHOOSE i \in DOMAIN u :
                               CapacityAt(u, i)
                               /\ \A j \in 1..(i - 1) : ~CapacityAt(u, j))

\* re.search(r'\b' + re.escape(f) + r'\b', u), for f that starts and ends
\* with a word character
SearchWord(u, f) ==
    \E i \in DOMAIN u :
        /\ OccursAt(u, f, i)
        /\ i = 1 \/ ~IsWordChar(u[i - 1])
        /\ i + Len(f) > Len(u) \/ ~IsWordChar(u[i + Len(f)])

\* filter_num * 1024 if filter_unit == 'TB' else filter_num
InGb(match) ==
    IF match[2] = <<"T", "B">> THEN TextToNat(match[1]) * 1024
    ELSE TextToNat(match[1])

\* the second and third test of _matches_capacity_filter on the two matches
GroupsMatch(filter_match, option_match) ==
    /\ filter_match # <<>>
    /\ option_match # <<>>
    /\ \/ filter_match = option_match
       \/ InGb(filter_match) = InGb(option_match)

\* compuzone.py _matches_capacity_filter
MatchesCapacityFilter(option_name, filter_text) ==
    \/ SearchWord(Upper(option_name), Upper(filter_text))
    \/ GroupsMatch(SearchCapacity(Upper(filter_text)),
                   SearchCapacity(Upper(option_name)))

\* ---- inputs ----
MaxOptions == 2

CapacityNumbers == {1, 4, 512, 1024, 4096}
PackSuffix == <<" ", "(", "5", "P", "A", "C", "K", ")">>   \* " (5PACK)"
OptionSuffixes == {<<>>, PackSuffix}

\* a capacity: its number and its unit
Capacities == [num : CapacityNumbers, unit : CapacityUnits]

\* f"{number}TB" and the like
CapacityText(c) == NatToText(c.num) \o c.unit

\* an option: its capacity and the text of its .op_name / .opt_name tag
OptionsOffered ==
    {[capacity |-> c, text |-> CapacityText(c) \o s] :
        c \in Capacities, s \in OptionSuffixes}

OptionLists == UNION {[1..n -> OptionsOffered] : n \in 1..MaxOptions}

InitCapacity ==
    /\ \E c \in Capacities : capacity_filter = CapacityText(c)
    /\ option_items \in OptionLists
    /\ option_index = 0
    /\ option_products = <<>>
    /\ cPc = "loop"
    /\ ProductIdle
    /\ FanIdle
    /\ ParserIdle
    /\ GroupIdle
    /\ MergeIdle
    /\ BrandIdle
    /\ DedupIdle
    /\ DisplayIdle
    /\ SearchIdle
    /\ SelectIdle
    /\ OptionsIdle
    /\ DebugIdle
    /\ BucketsIdle
    /\ RequestsIdle
    /\ WorkersIdle
    /\ RowsIdle
    /\ KeywordIdle
    /\ SessionIdle

\* _parse_product_options_filtered: one turn of the loop over option_items;
\* an option that passes the filter yields its product
ParseOption ==
    /\ cPc = "loop"
    /\ option_index < Len(option_items)
    /\ option_index' = option_index + 1
    /\ option_products' =
          IF MatchesCapacityFilter(option_items[option_index + 1].text,
                                   capacity_filter)
          THEN Append(option_products, option_items[option_index + 1])
          ELSE option_products
    /\ UNCHANGED <<capacity_filter, option_items, cPc, notCapacity>>

\* _parse_product_options_filtered: return products
ReturnOptionProducts ==
    /\ cPc = "loop"
    /\ option_index = Len(option_items)
    /\ cPc' = "done"
    /\ UNCHANGED <<capacity_filter, option_items, option_index,
                   option_products, notCapacity>>

NextCapacity ==
    \/ ParseOption
    \/ ReturnOptionProducts

SpecCapacity == InitCapacity /\ [][NextCapacity]_vars

\* the unit of a capacity as a power of 1024 megabytes
UnitRank(unit) ==
    IF unit = <<"T", "B">> THEN 2 ELSE IF unit = <<"G", "B">> THEN 1 ELSE 0

\* 1024 ^ k for the differences of two ranks
UnitFactor(k) == IF k = 0 THEN 1 ELSE IF k = 1 THEN 1024 ELSE 1024 * 1024

\* hi, of the unit that is not the smaller, is the same amount as lo
SameAmount(hi, lo) ==
    /\ lo.num % UnitFactor(UnitRank(hi.unit) - UnitRank(lo.unit)) = 0
    /\ lo.num \div UnitFactor(UnitRank(hi.unit) - UnitRank(lo.unit)) = hi.num

\* two capacities are equal after unit normalisation, 1TB = 1024GB and
\* 1GB = 1024MB
SameCapacity(a, b) ==
    IF UnitRank(a.unit) >= UnitRank(b.unit) THEN SameAmount(a, b)
    ELSE SameAmount(b, a)

\* the capacity the filter text was built from
FilterCapacity == CHOOSE c \in Capacities : CapacityText(c) = capacity_filter

\* C15: an option is kept if and only if its capacity equals the capacity of
\* the filter after unit normalisation (1TB = 1024GB), for every filter and
\* option built from a number and a unit of MB, GB, TB; an option whose
\* capacity differs in value is never kept.
C15_KeptIffSameCapacity ==
    cPc = "done" =>
        \A i \in DOMAIN option_items :
            (option_items[i] \in Range(option_products))
                <=> SameCapacity(option_items[i].capacity, FilterCapacity)

\* the scenario of the statement: the filter "4TB" keeps "4TB", "4TB (5PACK)"
\* and "4096GB" and drops "1TB"
FourTbScenario ==
    (cPc = "done" /\ capacity_filter = <<"4", "T", "B">>) =>
        \A i \in DOMAIN option_items :
            option_items[i].capacity \in {[num |-> 4, unit |-> <<"T", "B">>],
                                          [num |-> 4096, unit |-> <<"G", "B">>],
                                          [num |-> 1, unit |-> <<"T", "B">>]}
            => ((option_items[i] \in Range(option_products))
                   <=> option_items[i].capacity.num # 1)

\* without megabyte capacities the statement holds
KeptIffSameCapacityFromGb ==
    (/\ FilterCapacity.unit # <<"M", "B">>
     /\ \A i \in DOMAIN option_items :
            option_items[i].capacity.unit # <<"M", "B">>)
        => C15_KeptIffSameCapacity


(***************************************************************************)
(* Manufacturer discovery: get_search_options of the two parsers.         *)
(*                                                                         *)
(* A maker checkbox of compuzone's API response is its vals attribute and  *)
(* the brand name read from name_vals or the label; a row of guidecom's    *)
(* response is its product name and the text of its seller element.        *)
(***************************************************************************)

\* manufacturers[:20], result[:12], filtered_manufacturers[:12]
ApiLimit == 20
ProductBrandLimit == 12
GuidecomBrandLimit == 12

\* vals.isdigit()
IsDigits(text) == text # <<>> /\ \A i \in DOMAIN text : IsDigit(text[i])

\* a variant of the API strategy that returns every checkbox it parsed
ApiManufacturersUntruncated(checkboxes) ==
    LET usable == SelectSeq(checkboxes,
                      LAMBDA c : IsDigits(c.vals) /\ c.brand_name # <<>>)
    IN [i \in DOMAIN usable |->
           [name |-> usable[i].brand_name, code |-> usable[i].vals]]

\* compuzone.py _get_manufacturer_from_search_api on the checkboxes of the
\* selector that yields: the entries with a numeric id and a brand name,
\* the first ApiLimit of them
ApiManufacturers(checkboxes) ==
    LET usable == SelectSeq(checkboxes,
                      LAMBDA c : IsDigits(c.vals) /\ c.brand_name # <<>>)
    IN FirstN([i \in DOMAIN usable |->
                  [name |-> usable[i].brand_name, code |-> usable[i].vals]],
              ApiLimit)

\* re.search(r'\[([^\]]+)\]', name): the positions of the first "[" that is
\* followed by at least one character other than "]" and then by "]"
BracketAt(name, i) ==
    /\ i \in DOMAIN name
    /\ name[i] = "["
    /\ TagBodyLen(name, i + 1) > 0
    /\ i + TagBodyLen(name, i + 1) + 1 <= Len(name)

\* bracket_match.group(1).strip(); <<>> when there is no match
BracketBrand(name) ==
    IF \A i \in DOMAIN name : ~BracketAt(name, i) THEN <<>>
    ELSE LET i == CHOOSE k \in DOMAIN name :
                      BracketAt(name, k) /\ \A j \in 1..(k - 1) : ~BracketAt(name, j)
         IN Strip(SubSeq(name, i + 1, i + TagBodyLen(name, i + 1)))

\* brands_found after the loop over products: the brands in the order of
\* their first occurrence, each with its count
BrandsFound(product_names) ==
    LET in_brackets == [k \in DOMAIN product_names |->
                           BracketBrand(product_names[k])]
        firsts == SelectSeq([k \in DOMAIN in_brackets |-> k],
                      LAMBDA k : /\ Len(in_brackets[k]) > 1
                                 /\ \A j \in 1..(k - 1) : in_brackets[j] # in_brackets[k])
        counted == [i \in DOMAIN firsts |->
                       [name |-> in_brackets[firsts[i]],
                        count |-> Cardinality({k \in DOMAIN in_brackets :
                                                  in_brackets[k] = in_brackets[firsts[i]]})]]
    IN SubSeq(counted, 1, Len(counted))

\* the place of item i of list in sorted(list): after the items that come
\* before it in the order, and after the items equal to it that precede it
PlaceOf(list, i, Before(_, _)) ==
    1 + Cardinality({j \in DOMAIN list :
                        \/ Before(list[j], list[i])
                        \/ j < i /\ ~Before(list[i], list[j])})

\* sorted(list, key=...): equal keys stay in the order of the list
StableSorted(list, Before(_, _)) ==
    LET places == [i \in DOMAIN list |-> PlaceOf(list, i, Before)]
        by_place == SubSeq(places, 1, Len(places))
        sorted == [p \in DOMAIN list |->
                      list[CHOOSE i \in DOMAIN list : by_place[i] = p]]
    IN SubSeq(sorted, 1, Len(sorted))

\* sorted(brands_found.items(), key=lambda x: x[1], reverse=True): by count,
\* descending, equal counts in the order of brands_found
SortedBrands(counted) ==
    StableSorted(counted, LAMBDA x, y : x.count > y.count)

\* compuzone.py _extract_brands_from_search_results: known_ids
known_ids == <<
    [name |-> <<"S", "E", "B", "A", "P">>,
     code |-> <<"1", "0", "2", "1", "9">>],
    [name |-> <<"W", "e", "s", "t", "e", "r", "n", " ", "D", "i", "g", "i", "t", "a", "l">>,
     code |-> <<"2", "4">>],
    [name |-> <<"dong", "hwa">>,
     code |-> <<"4", "3", "9">>],
    [name |-> <<"S", "E", "A", "G", "A", "T", "E">>,
     code |-> <<"2", "5">>],
    [name |-> <<"H", "P", "E">>,
     code |-> <<"1", "5", "9", "4", "7">>],
    [name |-> <<"sam", "seong", "jeon", "ja">>,
     code |-> <<"2">>],
    [name |-> <<"H", "P">>,
     code |-> <<"9", "9">>],
    [name |-> <<"re", "no", "beo">>,
     code |-> <<"4", "6", "2", "9">>],
    [name |-> <<"A", "S", "U", "S">>,
     code |-> <<"9">>],
    [name |-> <<"M", "S", "I">>,
     code |-> <<"4", "7", "5">>],
    [name |-> <<"G", "I", "G", "A", "B", "Y", "T", "E">>,
     code |-> <<"1", "4">>],
    [name |-> <<"A", "D", "A", "T", "A">>,
     code |-> <<"3", "4", "0", "0">>],
    [name |-> <<"C", "r", "u", "c", "i", "a", "l">>,
     code |-> <<"6", "3", "4", "8">>],
    [name |-> <<"K", "i", "n", "g", "s", "t", "o", "n">>,
     code |-> <<"1", "8">>],
    [name |-> <<"C", "o", "r", "s", "a", "i", "r">>,
     code |-> <<"7", "6", "3">>],
    [name |-> <<"G", ".", "S", "K", "I", "L", "L">>,
     code |-> <<"1", "4", "1", "9">>],
    [name |-> <<"ji", "seu", "kil">>,
     code |-> <<"1", "4", "1", "9">>],
    [name |-> <<"T", "e", "a", "m", "G", "r", "o", "u", "p">>,
     code |-> <<"1", "4", "1", "9">>],
    [name |-> <<"T", "E", "A", "M", "G", "R", "O", "U", "P">>,
     code |-> <<"1", "4", "1", "9">>],
    [name |-> <<"C", "O", "R", "S", "A", "I", "R">>,
     code |-> <<"7", "6", "3">>],
    [name |-> <<"P", "a", "t", "r", "i", "o", "t">>,
     code |-> <<"1", "0", "4", "6">>],
    [name |-> <<"K", "I", "N", "G", "M", "A", "X">>,
     code |-> <<"1", "8">>],
    [name |-> <<"M", "A", "N", "L", "I">>,
     code |-> <<"3", "1", "6", "9">>],
    [name |-> <<"P", "N", "Y">>,
     code |-> <<"1", "1", "1", "1">>],
    [name |-> <<"P", "A", "L", "I", "T">>,
     code |-> <<"8", "8", "4", "2">>],
    [name |-> <<"Z", "O", "T", "A", "C">>,
     code |-> <<"2", "4", "1", "6">>],
    [name |-> <<"T", "h", "e", "r", "m", "a", "l", " ", "g", "r", "i", "z", "z", "l", "y">>,
     code |-> <<"8", "2", "3", "1">>],
    [name |-> <<"I", "N", "N", "O", "3", "D">>,
     code |-> <<"6", "2", "3", "8">>],
    [name |-> <<"G", "A", "I", "N", "W", "A", "R", "D">>,
     code |-> <<"3", "2">>]
    >>

\* known_ids.get(brand_name, brand_name)
KnownIdOrName(brand_name) ==
    IF \E k \in DOMAIN known_ids : known_ids[k].name = brand_name
    THEN known_ids[CHOOSE k \in DOMAIN known_ids :
                       known_ids[k].name = brand_name].code
    ELSE brand_name

\* compuzone.py _extract_brands_from_search_results on the products that
\* search_products(keyword, "sale_order", [], limit=50) returned
ExtractBrandsFromSearchResults(product_names) ==
    LET sorted_brands == SortedBrands(BrandsFound(product_names))
    IN FirstN([i \in DOMAIN sorted_brands |->
                  [name |-> sorted_brands[i].name,
                   code |-> KnownIdOrName(sorted_brands[i].name)]],
              ProductBrandLimit)

\* compuzone.py _get_known_manufacturer_ids: known_manufacturers
known_manufacturers == <<
    [name |-> <<"sam", "seong", "jeon", "ja">>,
     code |-> <<"2">>],
    [name |-> <<"H", "P">>,
     code |-> <<"9", "9">>],
    [name |-> <<"re", "no", "beo">>,
     code |-> <<"4", "6", "2", "9">>],
    [name |-> <<"L", "G", "jeon", "ja">>,
     code |-> <<"3">>],
    [name |-> <<"A", "S", "U", "S">>,
     code |-> <<"1", "0", "0">>],
    [name |-> <<"M", "S", "I">>,
     code |-> <<"1", "0", "1">>],
    [name |-> <<"G", "I", "G", "A", "B", "Y", "T", "E">>,
     code |-> <<"1", "0", "2">>],
    [name |-> <<"W", "e", "s", "t", "e", "r", "n", " ", "D", "i", "g", "i", "t", "a", "l">>,
     code |-> <<"2", "0", "0">>],
    [name |-> <<"S", "e", "a", "g", "a", "t", "e">>,
     code |-> <<"2", "0", "1">>],
    [name |-> <<"K", "i", "n", "g", "s", "t", "o", "n">>,
     code |-> <<"3", "0", "0">>],
    [name |-> <<"C", "r", "u", "c", "i", "a", "l">>,
     code |-> <<"3", "0", "1">>],
    [name |-> <<"I", "N", "T", "E", "L">>,
     code |-> <<"4", "0", "0">>],
    [name |-> <<"A", "M", "D">>,
     code |-> <<"4", "0", "1">>]
    >>

\* any(k in keyword_lower for k in [...])
AnyIn(words, keyword_lower) ==
    \E i \in DOMAIN words : Contains(keyword_lower, words[i])

\* compuzone.py _get_known_manufacturer_ids: relevant_brands
RelevantBrands(keyword_lower) ==
    IF AnyIn(<<<<"s", "s", "d">>, <<"n", "v", "m", "e">>, <<"s", "t", "o", "r", "a", "g", "e">>, <<"jeo", "jang">>>>, keyword_lower)
    THEN <<<<"sam", "seong", "jeon", "ja">>, <<"W", "e", "s", "t", "e", "r", "n", " ", "D", "i", "g", "i", "t", "a", "l">>, <<"S", "e", "a", "g", "a", "t", "e">>, <<"K", "i", "n", "g", "s", "t", "o", "n">>, <<"C", "r", "u", "c", "i", "a", "l">>>>
    ELSE IF AnyIn(<<<<"c", "p", "u">>, <<"p", "r", "o", "c", "e", "s", "s", "o", "r">>, <<"peu", "ro", "se", "seo">>>>, keyword_lower)
    THEN <<<<"I", "N", "T", "E", "L">>, <<"A", "M", "D">>>>
    ELSE IF AnyIn(<<<<"g", "p", "u">>, <<"g", "r", "a", "p", "h", "i", "c">>, <<"geu", "rae", "pik">>>>, keyword_lower)
    THEN <<<<"A", "S", "U", "S">>, <<"M", "S", "I">>, <<"G", "I", "G", "A", "B", "Y", "T", "E">>>>
    ELSE IF AnyIn(<<<<"n", "o", "t", "e", "b", "o", "o", "k">>, <<"l", "a", "p", "t", "o", "p">>, <<"no", "teu", "buk">>>>, keyword_lower)
    THEN <<<<"sam", "seong", "jeon", "ja">>, <<"L", "G", "jeon", "ja">>, <<"H", "P">>, <<"re", "no", "beo">>, <<"A", "S", "U", "S">>>>
    ELSE [i \in 1..10 |-> known_manufacturers[i].name]

\* compuzone.py _get_known_manufacturer_ids
KnownManufacturerIds(kw) ==
    LET relevant_brands == RelevantBrands(Lower(kw))
        listed == SelectSeq(relevant_brands,
                      LAMBDA b : \E k \in DOMAIN known_manufacturers :
                                     known_manufacturers[k].name = b)
    IN [i \in DOMAIN listed |->
           known_manufacturers[CHOOSE k \in DOMAIN known_manufacturers :
                                   known_manufacturers[k].name = listed[i]]]


\* the matches of r"\[[^\]]+\]" that a scan from the left finds: a match
\* starts at a "[" that BracketAt accepts and that no earlier match holds,
\* which is so when a "]" lies between it and every "[" before it
BracketMatchAt(name, i) ==
    /\ BracketAt(name, i)
    /\ \A j \in 1..(i - 1) :
           name[j] = "[" => \E k \in (j + 1)..(i - 1) : name[k] = "]"

\* position p lies in a match that starts before p
InBracketMatch(name, p) ==
    \E i \in 1..(p - 1) :
        BracketMatchAt(name, i) /\ p <= i + TagBodyLen(name, i + 1) + 1

\* re.sub(r"\[[^\]]+\]", " ", product_name)
BracketsToSpace(name) ==
    LET kept == SelectSeq([p \in DOMAIN name |-> p],
                    LAMBDA p : ~InBracketMatch(name, p))
        replaced == [k \in DOMAIN kept |->
                        IF BracketMatchAt(name, kept[k]) THEN " "
                        ELSE name[kept[k]]]
    IN SubSeq(replaced, 1, Len(replaced))

\* text.split() of a text whose whitespace is collapsed and stripped
Words(text) == IF text = <<>> THEN <<>> ELSE SplitOn(text, <<" ">>)

\* guidecom.py _extract_manufacturer: skip
skip == {
     <<"sin", "je", "pum">>, <<"sin", "sang", "pum">>, <<"gong", "sik", "in", "jeung">>,
     <<"byeong", "haeng", "su", "ip">>, <<"beol", "keu">>, <<"jeong", "pum">>,
     <<"seu", "pe", "syeol">>, <<"han", "jeong", "pan">>, <<"8", "wol">>, <<"7", "wol">>,
     <<"6", "wol">>, <<"9", "wol">>, <<"1", "0", "wol">>, <<"1", "1", "wol">>, <<"1", "2", "wol">>,
     <<"1", "wol">>, <<"2", "wol">>, <<"3", "wol">>, <<"4", "wol">>, <<"5", "wol">>,
     <<"sae", "sang", "pum">>, <<"ri", "peo">>, <<"jung", "go">>, <<"jeon", "si">>,
     <<"gae", "bong">>, <<"bak", "seu">>, <<"oh", "peun", "bak", "seu">>,
     <<"ri", "peo", "bi", "si">>, <<"hal", "in">>, <<"teuk", "ga">>, <<"se", "il">>,
     <<"yi", "ben", "teu">>, <<"peu", "ro", "mo", "syeon">>, <<"han", "jeong">>,
     <<"mu", "ryo", "bae", "song">>, <<"dang", "il", "bal", "song">>
    }

\* word == skip_word or skip_word in word or word in skip_word
ShouldSkip(word) ==
    \E skip_word \in skip : Contains(word, skip_word) \/ Contains(skip_word, word)

\* the index of the first word that is not skipped, Len(words) + 1 if none
RECURSIVE FirstKept(_, _)
FirstKept(words, i) ==
    IF i > Len(words) THEN i
    ELSE IF ShouldSkip(words[i]) THEN FirstKept(words, i + 1)
    ELSE i

\* the brands of two words
two_word_brands == {<<"w", "e", "s", "t", "e", "r", "n", " ", "d", "i", "g", "i", "t", "a", "l">>, <<"t", "p", " ", "l", "i", "n", "k">>, <<"g", " ", "s", "k", "i", "l", "l">>, <<"t", "e", "a", "m", " ", "g", "r", "o", "u", "p">>}

\* guidecom.py _extract_manufacturer, from the word list on: <<>> for None
ManufacturerOfWords(words, i) ==
    IF i > Len(words) THEN <<>>
    ELSE IF i + 1 <= Len(words)
            /\ NormalizeBrand(words[i] \o <<" ">> \o words[i + 1]) \in two_word_brands
         THEN words[i] \o <<" ">> \o words[i + 1]
    ELSE words[i]

\* guidecom.py _extract_manufacturer: <<>> for None
ExtractManufacturer(product_name) ==
    ManufacturerOfWords(
        Words(Strip(CollapseWs(BracketsToSpace(product_name)))),
        FirstKept(Words(Strip(CollapseWs(BracketsToSpace(product_name)))), 1))

\* the characters of the inputs that are not Hangul syllables
AsciiChars == Range(CharOrder) \cup {"!", "?", "\\", "|", ":", "'"}

\* re.match(r'^[ga-hih]+$', text): Hangul syllables only
HangulOnly(text) == text # <<>> /\ \A i \in DOMAIN text : text[i] \notin AsciiChars

\* re.search of a pattern  a.*b  for single characters a, b
SearchThenLater(text, IsFirst(_), last) ==
    \E i, j \in DOMAIN text : i < j /\ IsFirst(text[i]) /\ text[j] = last

\* guidecom.py _is_generic_manufacturer: generic_patterns
MatchesGenericPattern(mfr_lower) ==
    \/ SearchThenLater(mfr_lower, LAMBDA c : c = "sin", "pum")
    \/ \E w \in {<<"ga", "gyeok">>, <<"bae", "song">>, <<"bal", "song">>, <<"teuk", "ga">>, <<"yi", "ben", "teu">>, <<"se", "il">>} : Contains(mfr_lower, w)
    \/ \E i \in DOMAIN mfr_lower : IsDigit(mfr_lower[i])
          /\ \E j \in (i + 1)..Len(mfr_lower) : mfr_lower[j] = "wol"
    \/ \E w \in {<<"oh", "jeon">>, <<"oh", "hu">>, <<"si", "gan">>, <<"bun">>, <<"cho">>} : Contains(mfr_lower, w)

\* guidecom.py _is_generic_manufacturer: generic_words
generic_words == {
     <<"sin", "je", "pum">>, <<"sin", "sang", "pum">>, <<"hal", "in">>, <<"teuk", "ga">>,
     <<"yi", "ben", "teu">>, <<"se", "il">>, <<"mu", "ryo">>, <<"dang", "il">>, <<"ppa", "reun">>,
     <<"jeuk", "si">>, <<"choe", "jeo">>, <<"choe", "go">>, <<"in", "gi">>, <<"chu", "cheon">>,
     <<"be", "seu", "teu">>, <<"has", "dil">>, <<"oh", "neul">>, <<"nae", "il">>, <<"yi", "beon">>,
     <<"da", "eum">>, <<"ji", "geum">>, <<"ba", "ro">>, <<"got", "ba", "ro">>, <<"sang", "pum">>,
     <<"je", "pum">>, <<"ah", "yi", "tem">>, <<"mul", "geon">>, <<"beu", "raen", "deu">>,
     <<"hoe", "sa">>, <<"eopx", "che">>, <<"ga", "gyeok">>, <<"bae", "song">>, <<"bal", "song">>,
     <<"taek", "bae">>, <<"mul", "ryu">>, <<"seo", "bi", "seu">>, <<"go", "gaek">>,
     <<"mun", "ui">>, <<"sang", "dam">>, <<"ye", "yak">>, <<"ju", "mun">>, <<"gyeol", "je">>,
     <<"gu", "mae">>, <<"pan", "mae">>
    }

\* the endings of particles and of nominalised verbs
generic_endings == {
     <<"eh", "seo">>, <<"eu", "ro">>, <<"bu", "teo">>, <<"kka", "ji">>, <<"eh", "ge">>,
     <<"kke", "seo">>, <<"eh", "ge", "seo">>, <<"ha", "gi">>, <<"doe", "gi">>,
     <<"si", "ki", "gi">>, <<"ha", "neun">>, <<"doe", "neun">>, <<"si", "ki", "neun">>
    }

\* guidecom.py _is_generic_manufacturer: the test of Hangul-only names
GenericHangul(manufacturer) ==
    /\ HangulOnly(manufacturer)
    /\ \/ Len(manufacturer) <= 1
       \/ manufacturer \in generic_words
       \/ \E e \in generic_endings : EndsWith(manufacturer, e)

\* guidecom.py _is_generic_manufacturer
IsGenericManufacturer(manufacturer) ==
    \/ Len(Strip(manufacturer)) <= 1
    \/ IsDigits(manufacturer)
    \/ MatchesGenericPattern(Strip(Lower(manufacturer)))
    \/ GenericHangul(manufacturer)

\* guidecom.py _extract_seller_info: known_sellers
known_sellers == <<<<"pa", "in", "in", "po">>, <<"keom", "pyu", "jon">>, <<"f", "i", "n", "e", "i", "n", "f", "o">>, <<"c", "o", "m", "p", "u", "z", "o", "n", "e">>, <<"1", "1", "beon", "ga">>, <<"ok", "syeon">>, <<"G", "ma", "kes">>>>

\* guidecom.py _extract_seller_info: the text of the first seller element
\* with more than one character, else the first known seller that occurs in
\* the text of the row; <<>> for None
ExtractSellerInfo(row) ==
    IF Len(Strip(row.seller)) > 1 THEN Strip(CollapseWs(Strip(row.seller)))
    ELSE IF \E k \in DOMAIN known_sellers :
                Contains(row.name \o row.seller, known_sellers[k])
    THEN known_sellers[CHOOSE k \in DOMAIN known_sellers :
              /\ Contains(row.name \o row.seller, known_sellers[k])
              /\ \A j \in 1..(k - 1) :
                     ~Contains(row.name \o row.seller, known_sellers[j])]
    ELSE <<>>

\* if maker and not self._is_generic_manufacturer(maker)
IsBrandCandidate(candidate) ==
    candidate # <<>> /\ ~IsGenericManufacturer(candidate)

\* guidecom.py get_search_options: what the loop over rows[:50] extracts,
\* in the order of extraction: for each row the maker of its name, then its
\* seller; <<>> where the extraction gives None
RowScanLimit == 50
RowCandidates(row_list) ==
    LET scanned == FirstN(row_list, RowScanLimit)
        extracted == [k \in 1..(2 * Len(scanned)) |->
                         IF k % 2 = 1
                         THEN ExtractManufacturer(scanned[(k + 1) \div 2].name)
                         ELSE ExtractSellerInfo(scanned[k \div 2])]
    IN SubSeq(extracted, 1, Len(extracted))

\* the candidates appended to manufacturers: those that are brands, each at
\* its first extraction (seen holds the ones already appended)
FirstExtractions(extracted) ==
    LET appended == SelectSeq([k \in DOMAIN extracted |-> k],
                        LAMBDA k : /\ IsBrandCandidate(extracted[k])
                                   /\ \A j \in 1..(k - 1) :
                                          extracted[j] # extracted[k])
        kept == [i \in DOMAIN appended |-> extracted[appended[i]]]
    IN SubSeq(kept, 1, Len(kept))

\* guidecom.py get_search_options: manufacturers after the loop; every name
\* in it has a count of at least 1, so filtered_manufacturers is manufacturers
ManufacturersOfRows(row_list) == FirstExtractions(RowCandidates(row_list))

\* sort_key: (0 if the name has a Hangul syllable else 1, normalised name)
HasHangul(x) == \E i \in DOMAIN x : x[i] \notin AsciiChars
SortKeyLess(a, b) ==
    IF HasHangul(a) # HasHangul(b) THEN HasHangul(a)
    ELSE TextLess(NormalizeBrand(a), NormalizeBrand(b))

\* sorted(list, key=sort_key); equal keys stay in the order of the list
SortedByKey(list) == StableSorted(list, SortKeyLess)

\* self._normalize_brand(m).replace(" ", "_"): the new string, built whole
GuidecomCode(m) ==
    LET normalized == NormalizeBrand(m)
        replaced == [i \in DOMAIN normalized |->
                        IF normalized[i] = " " THEN "_" ELSE normalized[i]]
    IN SubSeq(replaced, 1, Len(replaced))

\* a variant that sorts and returns every manufacturer found
GuidecomOptionsUntruncated(row_list) ==
    LET listed == SortedByKey(ManufacturersOfRows(row_list))
        options == [i \in DOMAIN listed |->
                       [name |-> listed[i], code |-> GuidecomCode(listed[i])]]
    IN SubSeq(options, 1, Len(options))

\* guidecom.py get_search_options, from the rows on; the list returned is
\* built whole before the call returns
GuidecomOptions(row_list) ==
    LET listed == SortedByKey(FirstN(ManufacturersOfRows(row_list),
                                     GuidecomBrandLimit))
        options == [i \in DOMAIN listed |->
                       [name |-> listed[i], code |-> GuidecomCode(listed[i])]]
    IN SubSeq(options, 1, Len(options))

\* if self.debug and idx < 10: sample_names.append(nm)
SampleShown == 10
SampleNamesOf(row_list, flag) ==
    IF flag
    THEN [i \in 1..(IF Len(row_list) < SampleShown THEN Len(row_list)
                    ELSE SampleShown) |-> row_list[i].name]
    ELSE <<>>


\* ---- inputs ----
MaxPageBrands == 21
MaxNoisy == 2

\* the i-th brand of a page of many brands: "B1", "B2", ...
PoolName(i) == <<"B">> \o NatToText(i)

\* maker checkboxes: a page of n brands, or a short list of other checkboxes
CheckboxPages ==
    {[i \in 1..n |-> [vals |-> NatToText(i), brand_name |-> PoolName(i)]] :
        n \in 0..MaxPageBrands}
OtherCheckboxes ==
    {[vals |-> <<"8">>, brand_name |-> <<"A", "M", "D">>],
     [vals |-> <<"8">>, brand_name |-> <<>>],
     [vals |-> <<"x", "8">>, brand_name |-> <<"A", "M", "D">>],
     [vals |-> <<"2">>, brand_name |-> <<"sam", "seong", "jeon", "ja">>]}
CheckboxLists ==
    CheckboxPages \cup UNION {[1..n -> OtherCheckboxes] : n \in 1..MaxNoisy}

\* names of products found: a page of n brands, or a short list of others
ProductPages ==
    {[i \in 1..n |-> <<"[">> \o PoolName(i) \o <<"]", " ", "S", "S", "D">>] :
        n \in 0..MaxPageBrands}
OtherProductNames ==
    {AmdRyzen, IntelCore, AmdRaijen,
     <<"[", "2", "0", "2", "4", "]", " ", "S", "S", "D">>,    \* "[2024] SSD"
     <<"[", "8", "wol", "]", " ", "S", "S", "D">>,    \* "[8wol] SSD"
     <<"[", "-", "-", "]", " ", "S", "S", "D">>}    \* "[--] SSD"
ProductNameLists ==
    ProductPages \cup UNION {[1..n -> OtherProductNames] : n \in 1..MaxNoisy}

\* rows of guidecom: a page of n brands, or a short list of others
RowPages ==
    {[i \in 1..n |-> [name |-> PoolName(i) \o <<" ", "S", "S", "D">>,
                      seller |-> <<>>]] : n \in 0..MaxPageBrands}
OtherRows ==
    {[name |-> AmdRaijen,
      seller |-> <<>>],
     [name |-> <<"2", "0", "2", "4", " ", "A", "M", "D">>,
      seller |-> <<>>],
     [name |-> <<"8", "wol", " ", "A", "M", "D">>,
      seller |-> <<>>],
     [name |-> <<"-", "-", " ", "A", "M", "D">>,
      seller |-> <<>>],
     [name |-> <<"sang", "pum", " ", "A", "M", "D">>,
      seller |-> <<>>],
     [name |-> <<"[", "sin", "je", "pum", "]", " ", "T", "P", " ", "L", "i", "n", "k", " ", "A", "X">>,
      seller |-> <<"c", "o", "m", "p", "u", "z", "o", "n", "e">>],
     [name |-> <<"[", "sin", "je", "pum", "]", " ", "T", "P", " ", "L", "i", "n", "k", " ", "A", "X">>,
      seller |-> <<"-", "-">>]}
RowLists2 == UNION {[1..n -> OtherRows] : n \in 1..MaxNoisy}
GuidecomRowLists == RowPages \cup RowLists2

DiscoveryKeywords == {<<"s", "s", "d">>, <<"c", "p", "u">>, <<"g", "p", "u">>, <<"n", "o", "t", "e", "b", "o", "o", "k">>, <<"r", "a", "m">>}

InitOptions ==
    /\ oSite \in {"compuzone", "guidecom"}
    /\ oKeyword \in DiscoveryKeywords
    /\ network_down \in BOOLEAN
    /\ debug \in BOOLEAN
    /\ page_rows = [step |-> "none", items |-> <<>>]
    /\ sample_names = <<>>
    /\ search_options = <<>>
    /\ oPc = "start"
    /\ ProductIdle
    /\ FanIdle
    /\ ParserIdle
    /\ GroupIdle
    /\ MergeIdle
    /\ BrandIdle
    /\ DedupIdle
    /\ DisplayIdle
    /\ SearchIdle
    /\ SelectIdle
    /\ CapacityIdle
    /\ DebugIdle
    /\ BucketsIdle
    /\ RequestsIdle
    /\ WorkersIdle
    /\ RowsIdle
    /\ KeywordIdle
    /\ SessionIdle

\* get_search_options is called
CallGetSearchOptions ==
    /\ oPc = "start"
    /\ oPc' = IF oSite = "compuzone" THEN "api" ELSE "filtered"
    /\ UNCHANGED <<oSite, oKeyword, network_down, debug, page_rows,
                   sample_names, search_options, notOptions>>

\* a variant of step 1 that goes on to the product names whatever was found
CzApiStrategyFallsThrough ==
    /\ oSite = "compuzone" /\ oPc = "api"
    /\ \E boxes \in (IF network_down THEN {<<>>} ELSE CheckboxLists) :
          /\ page_rows' = [step |-> "api", items |-> boxes]
          /\ search_options' = ApiManufacturers(boxes)
    /\ oPc' = "products"
    /\ UNCHANGED <<oSite, oKeyword, network_down, debug, sample_names,
                   notOptions>>

\* compuzone.py get_search_options, step 1: _get_manufacturer_from_search_api;
\* a request that fails gives []
CzApiStrategy ==
    /\ oSite = "compuzone" /\ oPc = "api"
    /\ \E boxes \in (IF network_down THEN {<<>>} ELSE CheckboxLists) :
          /\ page_rows' = [step |-> "api", items |-> boxes]
          /\ search_options' = ApiManufacturers(boxes)
    /\ oPc' = IF search_options' # <<>> THEN "done" ELSE "products"
    /\ UNCHANGED <<oSite, oKeyword, network_down, debug, sample_names,
                   notOptions>>

\* compuzone.py get_search_options, step 2:
\* _extract_brands_from_search_results; a search that fails gives []
CzProductsStrategy ==
    /\ oSite = "compuzone" /\ oPc = "products"
    /\ \E product_names \in (IF network_down THEN {<<>>} ELSE ProductNameLists) :
          /\ page_rows' = [step |-> "products", items |-> product_names]
          /\ search_options' = ExtractBrandsFromSearchResults(product_names)
    /\ oPc' = IF search_options' # <<>> THEN "done" ELSE "known"
    /\ UNCHANGED <<oSite, oKeyword, network_down, debug, sample_names,
                   notOptions>>

\* compuzone.py get_search_options, step 3: _get_known_manufacturer_ids
CzKnownIds ==
    /\ oSite = "compuzone" /\ oPc = "known"
    /\ search_options' = KnownManufacturerIds(oKeyword)
    /\ oPc' = "done"
    /\ UNCHANGED <<oSite, oKeyword, network_down, debug, page_rows,
                   sample_names, notOptions>>

\* guidecom.py get_search_options: _post_list with the category filter, then
\* without; a request that fails gives no soup; rows found are scanned and
\* the manufacturers returned
GcPostList ==
    /\ oSite = "guidecom" /\ oPc \in {"filtered", "unfiltered"}
    /\ \E row_list \in (IF network_down THEN {<<>>} ELSE GuidecomRowLists) :
          /\ page_rows' = [step |-> "rows", items |-> row_list]
          /\ search_options' = GuidecomOptions(row_list)
          /\ sample_names' = SampleNamesOf(row_list, debug)
          /\ oPc' = IF row_list = <<>> /\ oPc = "filtered" THEN "unfiltered"
                    ELSE "done"
    /\ UNCHANGED <<oSite, oKeyword, network_down, debug, notOptions>>

NextOptions ==
    \/ CallGetSearchOptions
    \/ CzApiStrategy
    \/ CzProductsStrategy
    \/ CzKnownIds
    \/ GcPostList

SpecOptions == InitOptions /\ [][NextOptions]_vars


\* ---- C17: when every request fails, both parsers return [] ----

\* C17: when all network requests fail during discovery, get_search_options
\* of each parser returns the empty list.
C17_EmptyWhenNetworkDown ==
    (network_down /\ oPc = "done") => search_options = <<>>

\* guidecom alone: with every request failing the list returned is empty
GuidecomEmptyWhenNetworkDown ==
    (oSite = "guidecom" /\ network_down /\ oPc = "done")
        => search_options = <<>>

\* compuzone with every request failing returns its table of known makers
CompuzoneKnownWhenNetworkDown ==
    (oSite = "compuzone" /\ network_down /\ oPc = "done")
        => /\ search_options = KnownManufacturerIds(oKeyword)
           /\ search_options # <<>>


\* ---- C18: no candidate returned is a noise token ----

\* the noise a candidate must not be: a pure number, punctuation only, a date
\* fragment (digits and the syllable of "month"), a generic noun or a word
\* with a generic ending
PureNumber(name) == IsDigits(name)
PunctuationOnly(name) ==
    name # <<>> /\ \A i \in DOMAIN name : name[i] \in Punctuation \cup {"_", "?"}
DateFragment(name) ==
    /\ Len(name) >= 2
    /\ name[Len(name)] = "wol"
    /\ IsDigits(SubSeq(name, 1, Len(name) - 1))
GenericNoun(name) == HangulOnly(name) /\ GenericHangul(name)
IsNoise(name) ==
    PureNumber(name) \/ PunctuationOnly(name) \/ DateFragment(name)
        \/ GenericNoun(name)

NoNoiseReturned ==
    \A i \in DOMAIN search_options : ~IsNoise(search_options[i].name)

\* C18: every candidate returned by get_search_options is a brand token,
\* never a noise token (pure number, punctuation only, date fragment, generic
\* Korean noun or suffix).
C18_NoNoiseCandidates == oPc = "done" => NoNoiseReturned

\* compuzone alone, and its three strategies one by one
CompuzoneNoNoise == (oSite = "compuzone" /\ oPc = "done") => NoNoiseReturned
CompuzoneKnownIdsNoNoise ==
    \A kw \in DiscoveryKeywords :
        \A i \in DOMAIN KnownManufacturerIds(kw) :
            ~IsNoise(KnownManufacturerIds(kw)[i].name)

\* guidecom alone
GuidecomNoNoise == (oSite = "guidecom" /\ oPc = "done") => NoNoiseReturned

\* guidecom returns no pure number, no date fragment and no generic noun
GuidecomNoNumberDateNoun ==
    (oSite = "guidecom" /\ oPc = "done")
        => \A i \in DOMAIN search_options :
               LET name == search_options[i].name
               IN ~(PureNumber(name) \/ DateFragment(name) \/ GenericNoun(name))


\* ---- C19: at most 20 candidates, whichever strategy produced them ----

MaxOptionsReturned == 20

\* C19: get_search_options returns at most 20 entries, whichever strategy
\* produced them.
C19_AtMostTwentyOptions ==
    oPc = "done" => Len(search_options) <= MaxOptionsReturned

\* a page of more than 20 usable maker checkboxes was read and exactly 20
\* candidates were returned
C19_Witness ==
    /\ oSite = "compuzone" /\ oPc = "done"
    /\ page_rows.step = "api"
    /\ Len(page_rows.items) > MaxOptionsReturned
    /\ \A i \in DOMAIN page_rows.items : IsDigits(page_rows.items[i].vals)
    /\ Len(search_options) = MaxOptionsReturned

\* the strategies that read product names or rows stop at 12
ProductStrategiesStopAtTwelve ==
    (oPc = "done" /\ page_rows.step \in {"products", "rows"})
        => Len(search_options) <= 12

\* more than 12 brands were found on guidecom and 12 were returned
GuidecomTwelveReached ==
    /\ oSite = "guidecom" /\ oPc = "done"
    /\ Len(page_rows.items) > GuidecomBrandLimit
    /\ Len(search_options) = GuidecomBrandLimit


\* ==========================================================================
\* guidecom.py: the debug flag (GUIDECOM_DEBUG) and the three public methods
\* ==========================================================================

\* guidecom.py _dbg: one more line printed when self.debug
Dbg(flag, printed) == IF flag THEN printed + 1 ELSE printed

\* a variant whose debug block ends the parse of the row without a Product
ParseProductItemDebugFails(row, flag, printed) ==
    [p |-> IF flag THEN <<>> ELSE row,
     printed |-> IF flag THEN printed + 3 ELSE printed]

\* guidecom.py _parse_product_item: the debug block prints three lines, then
\* the row is parsed; row is the name parsed, <<>> when the row gives None
ParseProductItemOf(row, flag, printed) ==
    [p |-> row,
     printed |-> IF flag THEN printed + 3 ELSE printed]

\* guidecom.py search_products: the loop over rows, with the lines printed
RECURSIVE SearchRows(_, _, _, _, _, _, _)
SearchRowsStep(rows_in, i, out, parsed, flag, codes, current_keyword, lim) ==
    IF parsed.p = <<>> THEN
        SearchRows(rows_in, i + 1, [out |-> out, printed |-> Dbg(flag, parsed.printed)],
                   flag, codes, lim, current_keyword)
    ELSE IF ~FilterByMaker(parsed.p, codes, current_keyword) THEN
        SearchRows(rows_in, i + 1, [out |-> out, printed |-> Dbg(flag, parsed.printed)],
                   flag, codes, lim, current_keyword)
    ELSE IF Len(out) + 1 >= lim THEN
        [out |-> Append(out, parsed.p), printed |-> Dbg(flag, parsed.printed)]
    ELSE
        SearchRows(rows_in, i + 1,
                   [out |-> Append(out, parsed.p),
                    printed |-> Dbg(flag, parsed.printed)],
                   flag, codes, lim, current_keyword)
SearchRows(rows_in, i, st, flag, codes, lim, current_keyword) ==
    IF i > Len(rows_in) THEN st
    ELSE SearchRowsStep(rows_in, i, st.out,
                        ParseProductItemOf(rows_in[i], flag, st.printed),
                        flag, codes, current_keyword, lim)

\* one more line printed by an instance in state st
Printed(st, flag) == [out |-> st.out, printed |-> Dbg(flag, st.printed)]

\* guidecom.py search_products of an instance whose debug flag is flag
SearchProductsOf(flag, rows_in, codes, current_keyword, lim, printed) ==
    IF rows_in = <<>>
    THEN [out |-> <<>>, printed |-> Dbg(flag, Dbg(flag, Dbg(flag, printed)))]
    ELSE Printed(SearchRows(rows_in, 1,
                            [out |-> <<>>, printed |-> Dbg(flag, Dbg(flag, printed))],
                            flag, codes, lim, current_keyword), flag)

\* guidecom.py get_unique_products: the loop over search_buckets
RECURSIVE UniqueBuckets(_, _, _, _, _, _)
UniqueBucketsStep(pages, b, all_results, candidates, flag, codes, current_keyword) ==
    UniqueBuckets(pages, b + 1,
                  [out |-> AddCandidates(candidates.out, all_results, 0,
                                         search_buckets[b]),
                   printed |-> Dbg(flag, candidates.printed)],
                  flag, codes, current_keyword)
UniqueBuckets(pages, b, st, flag, codes, current_keyword) ==
    IF b > Len(search_buckets) THEN st
    ELSE UniqueBucketsStep(pages, b, st.out,
             SearchProductsOf(flag, pages[b], codes, current_keyword,
                              search_buckets[b] * 10, Dbg(flag, st.printed)),
             flag, codes, current_keyword)

\* final_results = all_results[:min(len(all_results), 10)]
FinalResults(st, flag) ==
    [out |-> FirstN(st.out, GuidecomUniqueLimit),
     printed |-> IF flag THEN st.printed + 4 ELSE st.printed]

\* guidecom.py get_unique_products of an instance whose debug flag is flag
GetUniqueProductsOf(flag, pages, codes, current_keyword, printed) ==
    FinalResults(UniqueBuckets(pages, 1,
                     [out |-> <<>>, printed |-> Dbg(flag, Dbg(flag, printed))],
                     flag, codes, current_keyword), flag)

\* the rows of a page as get_search_options reads them: name and no seller
\* element; a row without a name element reads as ""
RowsOf(page) == [i \in DOMAIN page |-> [name |-> page[i], seller |-> <<>>]]

\* guidecom.py get_search_options of an instance whose debug flag is flag
GetSearchOptionsOf(flag, page, printed) ==
    IF page = <<>> THEN [out |-> <<>>, printed |-> printed, sample_names |-> <<>>]
    ELSE [out |-> GuidecomOptions(RowsOf(page)),
          printed |-> IF flag THEN printed + 2 ELSE printed,
          sample_names |-> SampleNamesOf(RowsOf(page), flag)]

\* ---- inputs ----
MaxDebugRows == 2
DefaultLimit == 5
DebugRowNames == {IntelCore, AmdRyzen}
\* the pages of up to MaxDebugRows rows, and one whose first row gives no Product
DebugPages ==
    UNION {[1..n -> DebugRowNames] : n \in 0..MaxDebugRows}
        \cup {<<<<>>, AmdRyzen>>}
\* the answers to the three sort orders; the third answers as the first
SitePages == {<<p, q, p>> : p, q \in DebugPages}
Instances == {"debug_on", "debug_off"}
NoResult == <<"not called">>

InitDebug ==
    /\ dKeyword = <<"c", "p", "u">>
    /\ dCodes \in {<<>>, <<<<"A", "M", "D">>>>}
    /\ dLimit \in {1, DefaultLimit}
    /\ site_pages \in SitePages
    /\ instances = [i \in Instances |-> [debug |-> i = "debug_on", called |-> 0, printed |-> 0, sample_names |-> <<>>, search_options |-> NoResult, products |-> NoResult, unique_products |-> NoResult]]
    /\ ProductIdle
    /\ FanIdle
    /\ ParserIdle
    /\ GroupIdle
    /\ MergeIdle
    /\ BrandIdle
    /\ DedupIdle
    /\ DisplayIdle
    /\ SearchIdle
    /\ SelectIdle
    /\ CapacityIdle
    /\ OptionsIdle
    /\ BucketsIdle
    /\ RequestsIdle
    /\ WorkersIdle
    /\ RowsIdle
    /\ KeywordIdle
    /\ SessionIdle

\* an instance is asked for the manufacturers of the keyword
DbgGetSearchOptions(i) ==
    /\ instances # <<>> /\ instances[i].called = 0
    /\ LET r == GetSearchOptionsOf(instances[i].debug, site_pages[1],
                                   instances[i].printed)
       IN instances' = [instances EXCEPT ![i].called = 1,
                                         ![i].search_options = r.out,
                                         ![i].sample_names = r.sample_names,
                                         ![i].printed = r.printed]
    /\ UNCHANGED <<dKeyword, dCodes, dLimit, site_pages, notDebug>>

\* an instance is asked for the products of one sort order
DbgSearchProducts(i) ==
    /\ instances # <<>> /\ instances[i].called = 1
    /\ LET r == SearchProductsOf(instances[i].debug, site_pages[1], dCodes,
                                 dKeyword, dLimit, instances[i].printed)
       IN instances' = [instances EXCEPT ![i].called = 2,
                                         ![i].products = r.out,
                                         ![i].printed = r.printed]
    /\ UNCHANGED <<dKeyword, dCodes, dLimit, site_pages, notDebug>>

\* an instance is asked for the unique products of the three sort orders
DbgGetUniqueProducts(i) ==
    /\ instances # <<>> /\ instances[i].called = 2
    /\ LET r == GetUniqueProductsOf(instances[i].debug, site_pages, dCodes,
                                    dKeyword, instances[i].printed)
       IN instances' = [instances EXCEPT ![i].called = 3,
                                         ![i].unique_products = r.out,
                                         ![i].printed = r.printed]
    /\ UNCHANGED <<dKeyword, dCodes, dLimit, site_pages, notDebug>>

NextDebug ==
    \/ \E i \in Instances : DbgGetSearchOptions(i)
    \/ \E i \in Instances : DbgSearchProducts(i)
    \/ \E i \in Instances : DbgGetUniqueProducts(i)

SpecDebug == InitDebug /\ [][NextDebug]_vars

\* ---- C20: the debug flag has no effect on what is returned ----

\* C20: two GuidecomParser instances that differ only in debug return
\* identical lists from get_search_options, search_products and
\* get_unique_products.
C20_DebugHasNoEffect ==
    instances # <<>> =>
        LET on == instances["debug_on"]
            off == instances["debug_off"]
        IN /\ (on.called >= 1 /\ off.called >= 1)
                  => on.search_options = off.search_options
           /\ (on.called >= 2 /\ off.called >= 2) => on.products = off.products
           /\ (on.called >= 3 /\ off.called >= 3)
                  => on.unique_products = off.unique_products

\* both instances answered the three calls with non-empty lists, and only
\* the one in debug mode printed and kept sample names
C20_Witness ==
    /\ instances # <<>>
    /\ instances["debug_on"].called = 3 /\ instances["debug_off"].called = 3
    /\ instances["debug_on"].search_options # <<>>
    /\ instances["debug_on"].products # <<>>
    /\ Len(instances["debug_on"].unique_products) >= 2
    /\ instances["debug_on"].printed > 0
    /\ instances["debug_off"].printed = 0
    /\ instances["debug_on"].sample_names # <<>>
    /\ instances["debug_off"].sample_names = <<>>


\* ==========================================================================
\* guidecom.py get_unique_products: the three search buckets
\* ==========================================================================

\* ---- inputs ----
MaxBucketRows == 5
BucketStarts == {1, 3, 4, 8}
BucketLengths == {0, 2, MaxBucketRows}

\* rows the site answers a bucket's search with: a run of products, or rows
\* that repeat a name, or nothing (no rows, or a search that failed, which
\* search_products turns into [])
BucketRuns ==
    {[i \in 1..n |-> <<"[">> \o PoolName(s + i - 1) \o <<"]", " ", "S", "S", "D">>] :
        s \in BucketStarts, n \in BucketLengths}
BucketPages ==
    BucketRuns \cup {<<IntelCore, IntelCore, AmdRyzen>>}

InitBuckets ==
    /\ bucket_no = 1
    /\ bucket_items = <<>>
    /\ contributed = <<>>
    /\ unique_results = <<>>
    /\ uPc = "search"
    /\ ProductIdle
    /\ FanIdle
    /\ ParserIdle
    /\ GroupIdle
    /\ MergeIdle
    /\ BrandIdle
    /\ DedupIdle
    /\ DisplayIdle
    /\ SearchIdle
    /\ SelectIdle
    /\ CapacityIdle
    /\ OptionsIdle
    /\ DebugIdle
    /\ RequestsIdle
    /\ WorkersIdle
    /\ RowsIdle
    /\ KeywordIdle
    /\ SessionIdle

\* one turn of the loop over search_buckets: search_products for the bucket,
\* then the candidates not seen before are added up to the bucket's target
SearchNextBucket ==
    /\ uPc = "search" /\ bucket_no \in DOMAIN search_buckets
    /\ \E items \in BucketPages :
          /\ bucket_items' = Append(bucket_items, items)
          /\ unique_results' = SearchBucket(items, unique_results, <<>>,
                                            <<"s", "s", "d">>, search_buckets[bucket_no])
    /\ contributed' = Append(contributed,
                             Len(unique_results') - Len(unique_results))
    /\ bucket_no' = bucket_no + 1
    /\ UNCHANGED <<uPc, notBuckets>>

\* final_results = all_results[:min(len(all_results), 10)] is returned
ReturnFinalResults ==
    /\ uPc = "search" /\ bucket_no > Len(search_buckets)
    /\ unique_results' = FirstN(unique_results, GuidecomUniqueLimit)
    /\ uPc' = "done"
    /\ UNCHANGED <<bucket_no, bucket_items, contributed, notBuckets>>

NextBuckets ==
    \/ SearchNextBucket
    \/ ReturnFinalResults

SpecBuckets == InitBuckets /\ [][NextBuckets]_vars

\* ---- C21: at most 10 distinct products, 3, 4 and 3 per bucket ----

RECURSIVE SumOf(_)
SumOf(counts) == IF counts = <<>> THEN 0 ELSE Head(counts) + SumOf(Tail(counts))

\* the part of the result that bucket b contributed
PartOf(b) ==
    SubSeq(unique_results, SumOf(SubSeq(contributed, 1, b - 1)) + 1,
           SumOf(SubSeq(contributed, 1, b)))

\* C21: get_unique_products of guidecom returns at most 10 products with
\* pairwise distinct names, taken from the buckets low-price, popular,
\* promotion in this order, at most 3, 4 and 3 of them per bucket; a bucket
\* whose search gives nothing contributes none and the other buckets are
\* still searched.
C21_BucketsContribute ==
    uPc = "done" =>
        /\ Len(unique_results) <= 10
        /\ \A i, j \in DOMAIN unique_results :
               i # j => unique_results[i] # unique_results[j]
        /\ Len(bucket_items) = 3 /\ Len(contributed) = 3
        /\ contributed[1] <= 3 /\ contributed[2] <= 4 /\ contributed[3] <= 3
        /\ SumOf(contributed) = Len(unique_results)
        /\ \A b \in 1..3 :
               /\ Range(PartOf(b)) \subseteq Range(bucket_items[b])
               /\ bucket_items[b] = <<>> => contributed[b] = 0

\* the first bucket gave nothing, the second and third were searched and
\* gave their full share
C21_Witness ==
    /\ uPc = "done"
    /\ bucket_items[1] = <<>> /\ Len(bucket_items[2]) > 4
    /\ contributed = <<0, 4, 3>>
    /\ Len(unique_results) = 7

\* ten products are returned, three, four and three of the buckets
TenReturned ==
    uPc = "done" /\ contributed = <<3, 4, 3>> /\ Len(unique_results) = 10


\* ==========================================================================
\* compuzone.py / guidecom.py search_products: the requests of one call
\* ==========================================================================

\* compuzone.py _build_search_strategies, by what each strategy searches:
\* BigDivNo "4" with SearchType "small", BigDivNo "" with SearchType
\* "small", SearchType "total"
search_strategies == <<"category", "whole_catalog", "total">>

\* guidecom.py _post_list: priority_categories of the keyword
PriorityCategories(kw) ==
    IF AnyIn(<<<<"s", "s", "d">>, <<"n", "v", "m", "e">>, <<"m", ".", "2">>, <<"s", "o", "l", "i", "d">>>>, Lower(kw)) THEN <<"8855">>
    ELSE IF AnyIn(<<<<"r", "t", "x">>, <<"g", "t", "x">>, <<"geu", "rae", "pik">>, <<"g", "p", "u">>, <<"v", "g", "a">>>>, Lower(kw))
    THEN <<"8803">>
    ELSE IF AnyIn(<<<<"r", "a", "m">>, <<"me", "mo", "ri">>, <<"d", "d", "r">>>>, Lower(kw)) THEN <<"8802">>
    ELSE IF AnyIn(<<<<"c", "p", "u">>, <<"peu", "ro", "se", "seo">>, <<"i", "n", "t", "e", "l">>, <<"a", "m", "d">>, <<"ra", "yi", "jen">>>>, Lower(kw))
    THEN <<"8800">>
    ELSE IF AnyIn(<<<<"h", "d", "d">>, <<"ha", "deu">>, <<"w", "d">>, <<"s", "e", "a", "g", "a", "t", "e">>>>, Lower(kw)) THEN <<"8804">>
    ELSE <<"8855", "8803", "8802">>

\* guidecom.py _make_request: retries
DefaultRetries == 2

\* a request issued: where to, for which strategy, whether a usable response
\* came back, and the rows in it
Request(url, strategy_name, ok, rows_in) ==
    [url |-> url, strategy |-> strategy_name, ok |-> ok, rows |-> rows_in]

\* guidecom.py search_products from the soup on: no rows gives [], else the
\* rows that parse and pass the manufacturer filter, up to limit
GcProductsOf(rows_in, codes, current_keyword, lim) ==
    IF rows_in = <<>> THEN <<>>
    ELSE CollectFrom(rows_in, 1, <<>>, codes, current_keyword, lim)

\* ---- inputs ----
\* what a list request of compuzone is answered with: a failed call, or rows
\* (a row <<>> parses to no Product)
CzResponses ==
    {[ok |-> FALSE, rows |-> <<>>]}
        \cup {[ok |-> TRUE, rows |-> r] :
                 r \in {<<>>, <<<<>>>>, <<IntelCore>>, <<AmdRyzen>>,
                        <<IntelCore, AmdRyzen>>, <<AmdRyzen, AmdRyzen>>}}

\* what a POST to list.php of guidecom is answered with: an exception or an
\* unusable response, or rows
GcResponses ==
    {[ok |-> FALSE, rows |-> <<>>]}
        \cup {[ok |-> TRUE, rows |-> r] :
                 r \in {<<>>, <<IntelCore, AmdRyzen>>}}

RequestKeywords == {<<"c", "p", "u">>, <<"m", "o", "u", "s", "e">>}
NotReturned == <<"not returned">>

InitRequests ==
    /\ rSite \in {"compuzone", "guidecom"}
    /\ rKeyword \in RequestKeywords
    /\ rCodes \in {<<>>, <<<<"A", "M", "D">>>>}
    /\ rLimit \in {1, DefaultLimit}
    /\ request_log = <<>>
    /\ rPc = "visit"
    /\ rMethod = 1
    /\ rAttempt = 1
    /\ raised = FALSE
    /\ rReturned = NotReturned
    /\ ProductIdle
    /\ FanIdle
    /\ ParserIdle
    /\ GroupIdle
    /\ MergeIdle
    /\ BrandIdle
    /\ DedupIdle
    /\ DisplayIdle
    /\ SearchIdle
    /\ SelectIdle
    /\ CapacityIdle
    /\ OptionsIdle
    /\ DebugIdle
    /\ BucketsIdle
    /\ WorkersIdle
    /\ RowsIdle
    /\ KeywordIdle
    /\ SessionIdle

\* a variant of the visit that passes over a failure, as guidecom does
RqCzVisitPassesOver ==
    /\ rSite = "compuzone" /\ rPc = "visit"
    /\ \E ok \in BOOLEAN :
          request_log' = Append(request_log,
                                Request("search_page", "", ok, <<>>))
    /\ rPc' = "api"
    /\ UNCHANGED <<rSite, rKeyword, rCodes, rLimit, rMethod, rAttempt, raised,
                   rReturned, notRequests>>

\* compuzone.py search_products: the visit of the search page; when it fails
\* [] is returned
RqCzVisit ==
    /\ rSite = "compuzone" /\ rPc = "visit"
    /\ \E ok \in BOOLEAN :
          /\ request_log' = Append(request_log,
                                   Request("search_page", "", ok, <<>>))
          /\ rPc' = IF ok THEN "api" ELSE "done"
          /\ rReturned' = IF ok THEN rReturned ELSE <<>>
    /\ UNCHANGED <<rSite, rKeyword, rCodes, rLimit, rMethod, rAttempt, raised,
                   notRequests>>

\* a variant of the turn that goes on to the next strategy after a success
RqCzCallSearchApiNoBreak ==
    /\ rSite = "compuzone" /\ rPc = "api"
    /\ \E resp \in CzResponses :
          /\ request_log' = Append(request_log,
                 Request("list", search_strategies[rMethod], resp.ok, resp.rows))
          /\ IF rMethod = Len(search_strategies)
             THEN /\ rReturned' = FinalizeSearchResults(
                         ParseAllProducts(resp.rows, rCodes, rLimit), rLimit)
                  /\ rPc' = "done" /\ rMethod' = rMethod
             ELSE /\ rReturned' = rReturned
                  /\ rPc' = rPc /\ rMethod' = rMethod + 1
    /\ UNCHANGED <<rSite, rKeyword, rCodes, rLimit, rAttempt, raised,
                   notRequests>>

\* compuzone.py search_products: one turn of the loop over search_strategies,
\* and the return when the loop ends
RqCzCallSearchApi ==
    /\ rSite = "compuzone" /\ rPc = "api"
    /\ \E resp \in CzResponses :
          /\ request_log' = Append(request_log,
                 Request("list", search_strategies[rMethod], resp.ok, resp.rows))
          /\ IF ParseAllProducts(resp.rows, rCodes, rLimit) # <<>>
             THEN /\ rReturned' = FinalizeSearchResults(
                         ParseAllProducts(resp.rows, rCodes, rLimit), rLimit)
                  /\ rPc' = "done" /\ rMethod' = rMethod
             ELSE IF rMethod = Len(search_strategies)
             THEN /\ rReturned' = FinalizeSearchResults(<<>>, rLimit)
                  /\ rPc' = "done" /\ rMethod' = rMethod
             ELSE /\ rReturned' = rReturned
                  /\ rPc' = rPc /\ rMethod' = rMethod + 1
    /\ UNCHANGED <<rSite, rKeyword, rCodes, rLimit, rAttempt, raised,
                   notRequests>>

\* guidecom.py _post_list: the visit of the search page; a failure is passed
\* over
RqGcVisit ==
    /\ rSite = "guidecom" /\ rPc = "visit"
    /\ \E ok \in BOOLEAN :
          request_log' = Append(request_log,
                                Request("search_page", "", ok, <<>>))
    /\ rPc' = IF rMethod = 1 THEN "category" ELSE "post"
    /\ rAttempt' = 1
    /\ UNCHANGED <<rSite, rKeyword, rCodes, rLimit, rMethod, raised,
                   rReturned, notRequests>>

\* guidecom.py _post_list: the POST for one priority category; rows found end
\* the search for a soup
RqGcCategoryPost ==
    /\ rSite = "guidecom" /\ rPc = "category"
    /\ \E resp \in GcResponses :
          /\ request_log' = Append(request_log,
                 Request("list", PriorityCategories(rKeyword)[rAttempt],
                         resp.ok, resp.rows))
          /\ IF resp.ok /\ resp.rows # <<>>
             THEN /\ rReturned' = GcProductsOf(resp.rows, rCodes, rKeyword, rLimit)
                  /\ rPc' = "done" /\ rAttempt' = rAttempt
             ELSE IF rAttempt < Len(PriorityCategories(rKeyword))
             THEN /\ rReturned' = rReturned
                  /\ rPc' = rPc /\ rAttempt' = rAttempt + 1
             ELSE /\ rReturned' = rReturned
                  /\ rPc' = "post" /\ rAttempt' = rAttempt
    /\ UNCHANGED <<rSite, rKeyword, rCodes, rLimit, rMethod, raised,
                   notRequests>>

\* guidecom.py _post_list: the POST without a category; without rows the next
\* method of _try_alternative_methods follows
RqGcPost ==
    /\ rSite = "guidecom" /\ rPc = "post"
    /\ \E resp \in GcResponses :
          /\ request_log' = Append(request_log,
                 Request("list", "", resp.ok, resp.rows))
          /\ IF resp.ok /\ resp.rows # <<>>
             THEN /\ rReturned' = GcProductsOf(resp.rows, rCodes, rKeyword, rLimit)
                  /\ rPc' = "done" /\ rMethod' = rMethod
             ELSE IF rMethod = 1
             THEN /\ rReturned' = rReturned
                  /\ rPc' = "visit" /\ rMethod' = 2
             ELSE /\ rReturned' = rReturned
                  /\ rPc' = "get" /\ rMethod' = rMethod
    /\ rAttempt' = 1
    /\ UNCHANGED <<rSite, rKeyword, rCodes, rLimit, raised, notRequests>>

\* a variant of _make_request that tries once more than retries
RqGcMakeRequestOnceMore ==
    /\ rSite = "guidecom" /\ rPc = "get" /\ rAttempt <= DefaultRetries + 1
    /\ \E resp \in GcResponses :
          /\ request_log' = Append(request_log,
                 Request("base", "", resp.ok, resp.rows))
          /\ IF resp.ok
             THEN /\ rReturned' = GcProductsOf(resp.rows, rCodes, rKeyword, rLimit)
                  /\ rPc' = "done" /\ rAttempt' = rAttempt /\ raised' = raised
             ELSE IF rAttempt < DefaultRetries + 1
             THEN /\ rReturned' = rReturned
                  /\ rPc' = rPc /\ rAttempt' = rAttempt + 1 /\ raised' = raised
             ELSE /\ rReturned' = <<>>
                  /\ rPc' = "done" /\ rAttempt' = rAttempt /\ raised' = TRUE
    /\ UNCHANGED <<rSite, rKeyword, rCodes, rLimit, rMethod, notRequests>>

\* guidecom.py _make_request, called by _get_with_params: one attempt; the
\* first acceptable response is returned, after the last attempt it raises
\* and search_products returns []
RqGcMakeRequest ==
    /\ rSite = "guidecom" /\ rPc = "get" /\ rAttempt <= DefaultRetries
    /\ \E resp \in GcResponses :
          /\ request_log' = Append(request_log,
                 Request("base", "", resp.ok, resp.rows))
          /\ IF resp.ok
             THEN /\ rReturned' = GcProductsOf(resp.rows, rCodes, rKeyword, rLimit)
                  /\ rPc' = "done" /\ rAttempt' = rAttempt /\ raised' = raised
             ELSE IF rAttempt < DefaultRetries
             THEN /\ rReturned' = rReturned
                  /\ rPc' = rPc /\ rAttempt' = rAttempt + 1 /\ raised' = raised
             ELSE /\ rReturned' = <<>>
                  /\ rPc' = "done" /\ rAttempt' = rAttempt /\ raised' = TRUE
    /\ UNCHANGED <<rSite, rKeyword, rCodes, rLimit, rMethod, notRequests>>

NextRequests ==
    \/ RqCzVisit
    \/ RqCzCallSearchApi
    \/ RqGcVisit
    \/ RqGcCategoryPost
    \/ RqGcPost
    \/ RqGcMakeRequest

SpecRequests == InitRequests /\ [][NextRequests]_vars


\* ---- C22: compuzone stops at the first strategy that yields products ----

\* the list requests of the call, in the order they were issued
ListRequests == SelectSeq(request_log, LAMBDA r : r.url = "list")

\* the strategies were requested in their fixed order
InStrategyOrder ==
    /\ Len(ListRequests) <= Len(search_strategies)
    /\ \A i \in DOMAIN ListRequests :
           ListRequests[i].strategy = search_strategies[i]

\* a response holds a row that parses to a Product
HasParseableRow(r) == r.ok /\ \E i \in DOMAIN r.rows : r.rows[i] # <<>>

\* a response holds a row that parses to a Product of a selected maker
YieldsProducts(r) == r.ok /\ ParseAllProducts(r.rows, rCodes, rLimit) # <<>>

\* what is returned comes from the last response
FromLastResponse ==
    \/ rReturned = <<>>
    \/ /\ ListRequests # <<>>
       /\ Range(rReturned) \subseteq Range(ListRequests[Len(ListRequests)].rows)

\* C22: search_products of compuzone requests its strategies in the order
\* category-scoped, whole catalog, alternate search mode and stops at the
\* first whose response contains parseable product rows: no later strategy
\* is requested, and the products returned all come from that response.
C22_StopsAtFirstParseable ==
    (rSite = "compuzone" /\ rPc = "done") =>
        /\ InStrategyOrder
        /\ \A i \in DOMAIN ListRequests :
               HasParseableRow(ListRequests[i]) => i = Len(ListRequests)
        /\ FromLastResponse

\* C22, amended: the loop stops at the first strategy whose response yields a
\* product that parses and passes the manufacturer filter; a response whose
\* rows all belong to other makers does not stop it.
C22_StopsAtFirstYield ==
    (rSite = "compuzone" /\ rPc = "done") =>
        /\ InStrategyOrder
        /\ \A i \in DOMAIN ListRequests :
               /\ YieldsProducts(ListRequests[i]) => i = Len(ListRequests)
               /\ (i = Len(ListRequests) /\ i < Len(search_strategies))
                      => YieldsProducts(ListRequests[i])
        /\ FromLastResponse
        /\ (ListRequests # <<>> /\ YieldsProducts(ListRequests[Len(ListRequests)]))
               => rReturned # <<>>

\* the category-scoped response held only rows of another maker, the whole
\* catalog was requested next and its products were returned
C22_Witness ==
    /\ rSite = "compuzone" /\ rPc = "done"
    /\ Len(ListRequests) = 2
    /\ HasParseableRow(ListRequests[1]) /\ ~YieldsProducts(ListRequests[1])
    /\ YieldsProducts(ListRequests[2])
    /\ rReturned # <<>>

\* without a manufacturer filter the statement holds as it was made
StopsAtFirstParseableUnfiltered ==
    (rSite = "compuzone" /\ rPc = "done" /\ rCodes = <<>>) =>
        \A i \in DOMAIN ListRequests :
            HasParseableRow(ListRequests[i]) => i = Len(ListRequests)

\* ---- C23: the discovery strategies of compuzone, strictly in order ----

\* C23: get_search_options of compuzone runs its strategies in order and
\* returns the result of the first that is non-empty: the product names are
\* read only if the API extraction returned [], the table of known makers is
\* used only if both returned [], and a non-empty result of an earlier
\* strategy is returned unchanged.
C23_StrategiesInOrder ==
    [][oSite = "compuzone" =>
          /\ oPc = "start" => oPc' = "api"
          /\ oPc = "api" =>
                /\ page_rows'.step = "api"
                /\ IF ApiManufacturers(page_rows'.items) # <<>>
                   THEN /\ oPc' = "done"
                        /\ search_options' = ApiManufacturers(page_rows'.items)
                   ELSE oPc' = "products"
          /\ oPc = "products" =>
                /\ page_rows'.step = "products"
                /\ IF ExtractBrandsFromSearchResults(page_rows'.items) # <<>>
                   THEN /\ oPc' = "done"
                        /\ search_options' =
                               ExtractBrandsFromSearchResults(page_rows'.items)
                   ELSE oPc' = "known"
          /\ oPc = "known" =>
                /\ oPc' = "done"
                /\ search_options' = KnownManufacturerIds(oKeyword)]_vars

\* the API extraction gave nothing and the product names gave the result
C23_Witness ==
    /\ oSite = "compuzone" /\ oPc = "done"
    /\ page_rows.step = "products"
    /\ search_options # <<>>
    /\ search_options = ExtractBrandsFromSearchResults(page_rows.items)

\* the table of known makers was returned after both strategies gave nothing
KnownTableReached ==
    /\ oSite = "compuzone" /\ oPc = "done" /\ ~network_down
    /\ page_rows.step = "products"
    /\ ExtractBrandsFromSearchResults(page_rows.items) = <<>>
    /\ search_options = KnownManufacturerIds(oKeyword)

\* ---- C24: the search page is visited before the list endpoint ----

\* C24: in a product search the list endpoint is never requested before the
\* search page of the site was requested in the same call; in compuzone, when
\* that visit fails, no list request is issued at all and [] is returned.
C24_SearchPageFirst ==
    /\ \A i \in DOMAIN request_log :
           request_log[i].url = "list" =>
               \E j \in 1..(i - 1) : request_log[j].url = "search_page"
    /\ (rSite = "compuzone" /\ request_log # <<>>) =>
           /\ request_log[1].url = "search_page"
           /\ ~request_log[1].ok =>
                  /\ Len(request_log) = 1
                  /\ rPc = "done"
                  /\ rReturned = <<>>

\* the visit of compuzone failed: one request was issued and [] returned
C24_Witness ==
    /\ rSite = "compuzone" /\ rPc = "done"
    /\ Len(request_log) = 1
    /\ request_log[1].url = "search_page" /\ ~request_log[1].ok
    /\ rReturned = <<>>

\* compuzone requested the list endpoint after a visit that succeeded
CompuzoneListAfterVisit ==
    /\ rSite = "compuzone" /\ Len(request_log) >= 2
    /\ request_log[1].ok /\ request_log[2].url = "list"

\* guidecom requests the list endpoint after a visit that failed: the
\* failure is passed over
GuidecomListAfterFailedVisit ==
    /\ rSite = "guidecom" /\ Len(request_log) >= 2
    /\ request_log[1].url = "search_page" /\ ~request_log[1].ok
    /\ request_log[2].url = "list"

\* in guidecom every list request follows a visit of the same _post_list call
GuidecomVisitsPerMethod ==
    rSite = "guidecom" =>
        \A i \in DOMAIN request_log :
            (request_log[i].url = "list" /\ request_log[i].strategy = "")
                => \E j \in 1..(i - 1) :
                       /\ request_log[j].url = "search_page"
                       /\ \A k \in (j + 1)..(i - 1) :
                              /\ request_log[k].url = "list"
                              /\ request_log[k].strategy # ""

\* ---- C26: bounded retries, then the empty list ----

\* every step of a call is taken sooner or later: each request ends with a
\* response, an error or its timeout
SpecRequestsFair == SpecRequests /\ WF_vars(NextRequests)

\* the attempts of _make_request in the call
BaseRequests == SelectSeq(request_log, LAMBDA r : r.url = "base")

\* the most requests one search_products call of guidecom issues: per method
\* of _post_list a visit and a POST, the POSTs of three categories, and the
\* attempts of _make_request
RequestBound == 2 * 2 + 3 + DefaultRetries

RetriesBounded ==
    rSite = "guidecom" =>
        /\ Len(BaseRequests) <= DefaultRetries
        /\ \A i \in DOMAIN BaseRequests :
               BaseRequests[i].ok => (i = Len(BaseRequests) /\ rPc = "done")
        /\ raised <=> /\ Len(BaseRequests) = DefaultRetries
                      /\ \A i \in DOMAIN BaseRequests : ~BaseRequests[i].ok
        /\ raised => (rPc = "done" /\ rReturned = <<>>)
        /\ Len(request_log) <= RequestBound
        /\ (rPc = "done" /\ \A i \in DOMAIN request_log : ~request_log[i].ok)
               => rReturned = <<>>

\* C26: _make_request of guidecom issues at most retries (2) attempts, stops
\* at the first acceptable response and signals failure after the last
\* failed attempt; one search_products call issues a bounded number of
\* requests, always terminates, and returns [] when every request fails.
C26_BoundedRetriesThenEmpty ==
    /\ []RetriesBounded
    /\ (rSite = "guidecom") ~> (rPc = "done")

\* every request of a call failed: all nine were issued, _make_request raised
\* after its second attempt and [] was returned
C26_Witness ==
    /\ rSite = "guidecom" /\ rPc = "done"
    /\ \A i \in DOMAIN request_log : ~request_log[i].ok
    /\ Len(request_log) = RequestBound
    /\ Len(BaseRequests) = DefaultRetries
    /\ raised
    /\ rReturned = <<>>

\* the second attempt of _make_request was answered and ended the retries
SecondAttemptAccepted ==
    /\ rSite = "guidecom" /\ rPc = "done"
    /\ Len(BaseRequests) = 2
    /\ ~BaseRequests[1].ok /\ BaseRequests[2].ok
    /\ ~raised


\* ==========================================================================
\* app.py: the two-worker fan-outs (manufacturer search, product search)
\* ==========================================================================

Futures == {"future_compuzone", "future_guidecom"}
ParserInstances == {"compuzone_parser", "guidecom_parser"}

\* executor.submit(st.session_state.<site>_parser.<method>, ...): the parser
\* instance whose bound method the call behind a future runs
BoundParser(f) ==
    IF f = "future_compuzone" THEN "compuzone_parser" ELSE "guidecom_parser"

\* the method submitted for a future in each fan-out
BoundMethod(fo) ==
    IF fo = "manufacturers" THEN "get_search_options" ELSE "get_unique_products"

\* future.result() returns or raises only when the call has completed; a
\* variant that reads the future without waiting is FuturePolled
FuturePolled(f) == task_pc[f] # "unused"

FutureDone(f) == task_pc[f] \in {"returned", "raised"}

\* compuzone_mfrs + guidecom_mfrs merged by name, and
\* compuzone_products + guidecom_products
MergedLists(fo, lists) ==
    IF fo = "manufacturers"
    THEN EntryValues(MergeAll(<<>>, lists["future_compuzone"]
                                       \o lists["future_guidecom"]))
    ELSE lists["future_compuzone"] \o lists["future_guidecom"]

\* ---- inputs ----
MaxTaskRequests == 2
FanOutKeywords == {"ssd"}
ProductReturns ==
    [future_compuzone |-> {<<>>, <<"cz 1", "cz 2">>},
     future_guidecom |-> {<<>>, <<"gc 1">>}]
ManufacturerReturns ==
    [future_compuzone |-> {<<>>, <<[name |-> <<"A", "M", "D">>, code |-> <<"8">>]>>},
     future_guidecom |-> {<<>>, <<[name |-> <<"A", "M", "D">>, code |-> <<"a", "m", "d">>]>>}]
ReturnsOf(fo, f) ==
    IF fo = "manufacturers" THEN ManufacturerReturns[f] ELSE ProductReturns[f]

NoFuture == [set |-> FALSE, value |-> <<>>, writers |-> {}]

\* CompuzoneParser(), GuidecomParser(): the fields after __init__
NewParser ==
    [session |-> 0, last_request_time |-> 0, current_keyword |-> "",
     users |-> {}]
NoStored == [manufacturers |-> <<>>, products |-> <<>>, stored |-> {}]

\* the parsers are created once per session; the first fan-out is entered
InitWorkers ==
    /\ fan_out = "manufacturers"
    /\ main_pc = "submit_compuzone"
    /\ task_pc = [f \in Futures |-> "unused"]
    /\ task_requests = [f \in Futures |-> 0]
    /\ parser_fields = [p \in ParserInstances |-> NewParser]
    /\ future_result = [f \in Futures |-> NoFuture]
    /\ site_lists = [f \in Futures |-> <<>>]
    /\ session_lists = NoStored
    /\ ProductIdle
    /\ FanIdle
    /\ ParserIdle
    /\ GroupIdle
    /\ MergeIdle
    /\ BrandIdle
    /\ DedupIdle
    /\ DisplayIdle
    /\ SearchIdle
    /\ SelectIdle
    /\ CapacityIdle
    /\ OptionsIdle
    /\ DebugIdle
    /\ BucketsIdle
    /\ RequestsIdle
    /\ RowsIdle
    /\ KeywordIdle
    /\ SessionIdle

\* ---- the script thread ----

\* executor.submit(...) of the first call, then of the second
ExecutorSubmit(f, at, next) ==
    /\ main_pc = at
    /\ task_pc' = [task_pc EXCEPT ![f] = "submitted"]
    /\ main_pc' = next
    /\ UNCHANGED <<fan_out, task_requests, parser_fields, future_result,
                   site_lists, session_lists, notWorkers>>

SubmitCompuzone ==
    ExecutorSubmit("future_compuzone", "submit_compuzone", "submit_guidecom")
SubmitGuidecom ==
    ExecutorSubmit("future_guidecom", "submit_guidecom", "result_compuzone")

\* try: <list> = future.result() or []; except Exception: st.warning(...)
FutureResult(f, at, next) ==
    /\ main_pc = at
    /\ FutureDone(f)
    /\ site_lists' = [site_lists EXCEPT ![f] =
                        IF task_pc[f] = "returned" THEN future_result[f].value
                        ELSE <<>>]
    /\ main_pc' = next
    /\ UNCHANGED <<fan_out, task_pc, task_requests, parser_fields,
                   future_result, session_lists, notWorkers>>

ResultCompuzone ==
    FutureResult("future_compuzone", "result_compuzone", "result_guidecom")
ResultGuidecom ==
    FutureResult("future_guidecom", "result_guidecom", "exit")

\* the end of the with block: executor.shutdown(wait=True)
ExitExecutor ==
    /\ main_pc = "exit"
    /\ \A f \in Futures : task_pc[f] \in {"unused", "returned", "raised"}
    /\ main_pc' = "merge"
    /\ UNCHANGED <<fan_out, task_pc, task_requests, parser_fields,
                   future_result, site_lists, session_lists, notWorkers>>

\* the merge, and the assignment to st.session_state
MergeAndStore ==
    /\ main_pc = "merge"
    /\ session_lists' =
          [session_lists EXCEPT ![fan_out] = MergedLists(fan_out, site_lists),
                                !.stored = @ \cup {fan_out}]
    /\ main_pc' = "stored"
    /\ UNCHANGED <<fan_out, task_pc, task_requests, parser_fields,
                   future_result, site_lists, notWorkers>>

\* the script run of the product search, with a new executor;
\* st.session_state.products = [] comes first
StartProductSearch ==
    /\ main_pc = "stored" /\ fan_out = "manufacturers"
    /\ fan_out' = "products"
    /\ main_pc' = "submit_compuzone"
    /\ task_pc' = [f \in Futures |-> "unused"]
    /\ task_requests' = [f \in Futures |-> 0]
    /\ future_result' = [f \in Futures |-> NoFuture]
    /\ site_lists' = [f \in Futures |-> <<>>]
    /\ session_lists' = [session_lists EXCEPT !.products = <<>>]
    /\ UNCHANGED <<parser_fields, notWorkers>>

\* ---- the workers ----

\* a pool thread takes the call from the queue
TaskStart(f) ==
    /\ task_pc[f] = "submitted"
    /\ task_pc' = [task_pc EXCEPT ![f] = "running"]
    /\ UNCHANGED <<fan_out, main_pc, task_requests, parser_fields,
                   future_result, site_lists, session_lists, notWorkers>>

\* one request of the call: it goes through self.session of the bound
\* parser; guidecom stamps self.last_request_time, and search_products
\* sets self._current_search_keyword
TaskRequest(f) ==
    /\ task_pc[f] = "running" /\ task_requests[f] < MaxTaskRequests
    /\ task_requests' = [task_requests EXCEPT ![f] = @ + 1]
    /\ \E kw \in FanOutKeywords :
          LET p == BoundParser(f)
              old == parser_fields[p]
          IN parser_fields' = [parser_fields EXCEPT ![p] =
                [session |-> old.session + 1,
                 last_request_time |->
                    IF p = "guidecom_parser" THEN old.session + 1
                    ELSE old.last_request_time,
                 current_keyword |->
                    IF p = "guidecom_parser"
                       /\ BoundMethod(fan_out) = "get_unique_products"
                    THEN kw ELSE old.current_keyword,
                 users |-> old.users \cup {f}]]
    /\ UNCHANGED <<fan_out, main_pc, task_pc, future_result, site_lists,
                   session_lists, notWorkers>>

\* the call returns: the worker sets the result of its own future
TaskReturn(f) ==
    /\ task_pc[f] = "running"
    /\ \E r \in ReturnsOf(fan_out, f) :
          future_result' = [future_result EXCEPT ![f] =
              [set |-> TRUE, value |-> r, writers |-> @.writers \cup {f}]]
    /\ task_pc' = [task_pc EXCEPT ![f] = "returned"]
    /\ UNCHANGED <<fan_out, main_pc, task_requests, parser_fields,
                   site_lists, session_lists, notWorkers>>

\* the call raises: the worker sets the exception of its own future
TaskRaise(f) ==
    /\ task_pc[f] = "running"
    /\ future_result' = [future_result EXCEPT ![f] =
          [set |-> TRUE, value |-> <<>>, writers |-> @.writers \cup {f}]]
    /\ task_pc' = [task_pc EXCEPT ![f] = "raised"]
    /\ UNCHANGED <<fan_out, main_pc, task_requests, parser_fields,
                   site_lists, session_lists, notWorkers>>

NextWorkers ==
    \/ SubmitCompuzone
    \/ SubmitGuidecom
    \/ ResultCompuzone
    \/ ResultGuidecom
    \/ ExitExecutor
    \/ MergeAndStore
    \/ StartProductSearch
    \/ \E f \in Futures : TaskStart(f)
    \/ \E f \in Futures : TaskRequest(f)
    \/ \E f \in Futures : TaskReturn(f)
    \/ \E f \in Futures : TaskRaise(f)

SpecWorkers == InitWorkers /\ [][NextWorkers]_vars

\* ---- C25 ----

\* every parser instance is used by one worker only
OneWorkerPerParser ==
    \A p \in ParserInstances :
        /\ Cardinality(parser_fields[p].users) <= 1
        /\ \A f \in parser_fields[p].users : BoundParser(f) = p

\* every result is written by the worker of its own future only
OwnResultOnly ==
    \A f \in Futures : future_result[f].writers \subseteq {f}

\* what a completed call left in its future, [] when it raised
CompletedValue(f) ==
    IF task_pc[f] = "returned" THEN future_result[f].value ELSE <<>>

\* the merged list is stored only when both calls have completed, and it
\* is the merge of what the two calls left
StoredAfterJoin ==
    (main_pc = "stored") =>
        /\ \A f \in Futures : task_pc[f] \in {"returned", "raised"}
        /\ session_lists[fan_out] =
              MergedLists(fan_out, [f \in Futures |-> CompletedValue(f)])

\* nothing of the fan-out in progress is in the session state before
NothingBeforeJoin ==
    (main_pc # "stored" /\ fan_out = "products") =>
        session_lists.products = <<>>

\* C25: under every interleaving of the two workers, each parser instance
\* is accessed by exactly one worker, each worker writes only its own
\* result, and the merged list is stored into the session state only after
\* both workers have returned or raised
C25_IsolatedWorkersJoinedMerge ==
    /\ OneWorkerPerParser
    /\ OwnResultOnly
    /\ StoredAfterJoin
    /\ NothingBeforeJoin

\* both parsers were used in both fan-outs, the compuzone call raised, and
\* the product list of guidecom alone is stored
C25_Witness ==
    /\ fan_out = "products" /\ main_pc = "stored"
    /\ task_pc["future_compuzone"] = "raised"
    /\ task_pc["future_guidecom"] = "returned"
    /\ session_lists.products = <<"gc 1">>
    /\ \A p \in ParserInstances : Cardinality(parser_fields[p].users) = 1
    /\ parser_fields["guidecom_parser"].session = 2 * MaxTaskRequests


\* ==========================================================================
\* guidecom.py search_products and compuzone.py _parse_all_products: the
\* rows of one page, each turned into a Product or dropped
\* ==========================================================================

\* try: return Product(...) / except Exception: return None, with None
\* written as the record without fields
ProductOrNone(a) == IF PostInitRaises(a) THEN NoFields ELSE PostInit(a)

\* guidecom.py _parse_price
ParsePrice(text) ==
    LET digits == DigitsOf(text)
    IN IF digits = <<>> THEN <<>>
       ELSE WithCommas(NatToText(TextToNat(digits))) \o Won

\* guidecom.py _parse_product_item for a row without specifications and
\* link: None without a name, else the Product
GuidecomProduct(row) ==
    IF row.name = <<>> THEN NoFields
    ELSE ProductOrNone(
           [name |-> row.name,
            price |-> IF ParsePrice(row.price) # <<>> THEN ParsePrice(row.price)
                      ELSE NoPriceInfo,
            specifications |-> NoSpecInfo,
            product_link |-> <<>>,
            site |-> <<"ga", "yi", "deu", "keom">>])

\* compuzone.py _format_price
FormatPrice(price_text) ==
    IF price_text = <<>> THEN NoPriceInfo
    ELSE IF DigitsOf(price_text) # <<>>
         THEN WithCommas(NatToText(TextToNat(DigitsOf(price_text)))) \o Won
    ELSE IF \E w \in {<<"mun", "ui">>, <<"jeon", "hwa">>, <<"yeon", "rak">>} : Contains(price_text, w)
         THEN PriceInquiry
    ELSE price_text

\* str.replace for a one-character old
RECURSIVE ReplaceChar(_, _, _)
ReplaceChar(s, old, new) ==
    IF s = <<>> THEN <<>>
    ELSE (IF Head(s) = old THEN new ELSE <<Head(s)>>)
             \o ReplaceChar(Tail(s), old, new)

StartingFrom == <<"bu", "teo">>   \* "buteo"
CompuzoneSite == <<"keom", "pyu", "jon">>
CompuzoneGoods == <<"keom", "pyu", "jon", " ", "sang", "pum">>

\* compuzone.py _parse_regular_option from the price on: formatted_price, or
\* <<>> where the method returns None
OptionPrice(option) ==
    IF Contains(option.price, <<"~">>)
    THEN LET first_price == Strip(SplitOn(option.price, <<"~">>)[1])
             formatted_price == FormatPrice(first_price)
         IN IF formatted_price \notin {NoPriceInfo, PriceInquiry}
            THEN ReplaceChar(formatted_price, Won[1], Won \o StartingFrom)
            ELSE <<>>
    ELSE LET formatted_price == FormatPrice(option.price)
         IN IF formatted_price \in {NoPriceInfo, PriceInquiry}
            THEN IF option.sold_out THEN SoldOut ELSE <<>>
            ELSE formatted_price

\* compuzone.py _parse_regular_option for an item without base specifications
ParseRegularOption(option, base_product_name) ==
    IF ~option.price_tag THEN NoFields
    ELSE IF OptionPrice(option) = <<>> THEN NoFields
    ELSE ProductOrNone(
           [name |-> base_product_name \o <<" ">> \o option.op_name,
            price |-> OptionPrice(option),
            specifications |-> IF option.op_name # <<>> THEN option.op_name
                               ELSE CompuzoneGoods,
            product_link |-> <<>>,
            site |-> CompuzoneSite])

\* compuzone.py _parse_product_options_filtered without a capacity filter,
\* for options without sub-options
RECURSIVE ParseProductOptions(_, _)
ParseProductOptions(options, base_product_name) ==
    IF options = <<>> THEN <<>>
    ELSE LET p == ParseRegularOption(Head(options), base_product_name)
         IN (IF p # NoFields THEN <<p>> ELSE <<>>)
                \o ParseProductOptions(Tail(options), base_product_name)

\* compuzone.py _parse_single_product_filtered without a capacity filter
ParseSingleProduct(item) ==
    LET price_text == IF item.price_tag THEN item.price ELSE SoldOut
        formatted_price == FormatPrice(price_text)
    IN ProductOrNone(
           [name |-> item.name,
            price |-> IF formatted_price \in {NoPriceInfo, PriceInquiry}
                      THEN SoldOut ELSE formatted_price,
            specifications |-> SmartDeduplicateSpecs(CompuzoneGoods),
            product_link |-> <<>>,
            site |-> CompuzoneSite])

\* compuzone.py _parse_product_item_with_options with no maker_codes and a
\* keyword without capacity
CompuzoneProducts(item) ==
    IF item.name = <<>> THEN <<>>
    ELSE IF item.option_wrap THEN ParseProductOptions(item.options, item.name)
    ELSE LET p == ParseSingleProduct(item)
         IN IF p # NoFields THEN <<p>> ELSE <<>>

\* the products one row gives
RowProducts(site, row) ==
    IF site = "guidecom"
    THEN LET p == GuidecomProduct(row)
         IN IF p # NoFields THEN <<p>> ELSE <<>>
    ELSE CompuzoneProducts(row)

RECURSIVE Flatten(_)
Flatten(lists) ==
    IF lists = <<>> THEN <<>> ELSE Head(lists) \o Flatten(Tail(lists))

\* where the loop over the rows breaks: guidecom at limit products,
\* compuzone at limit * 3
BreakAt(site, lim) == IF site = "guidecom" THEN lim ELSE lim * 3

\* ---- inputs ----
MaxBatchRows == 3
Plain(name, price_tag, price) ==
    [name |-> name, price_tag |-> price_tag, price |-> price,
     option_wrap |-> FALSE, options |-> <<>>]
Option(op_name, price_tag, price, sold_out) ==
    [op_name |-> op_name, price_tag |-> price_tag, price |-> price,
     sold_out |-> sold_out]

GuidecomRows ==
    {Plain(<<>>, TRUE, <<"8", "9", ",", "9", "0", "0", "won">>),
     Plain(IntelCore, TRUE, <<"8", "9", ",", "9", "0", "0", "won">>),
     Plain(AmdRyzen, FALSE, <<>>),
     Plain(SamsungEvo, TRUE, <<"2", "1", "9", ",", "0", "0", "0", "won">>)}

\* "146,000won~ 1,416,200won", "219,000won", a range without a first price,
\* an option without a price element, a sold-out option
RangeOption == Option(<<"1", "T", "B">>, TRUE, <<"1", "4", "6", ",", "0", "0", "0", "won", "~", " ", "1", ",", "4", "1", "6", ",", "2", "0", "0", "won">>, FALSE)
SamsungOptions ==
    <<RangeOption,
      Option(<<"2", "T", "B">>, TRUE, <<"2", "1", "9", ",", "0", "0", "0", "won">>, FALSE),
      Option(<<"4", "T", "B">>, FALSE, <<>>, FALSE)>>
OtherOptions ==
    <<Option(<<"5", "1", "2", "G", "B">>, TRUE, <<"~", " ">> \o <<"2", "1", "9", ",", "0", "0", "0", "won">>, FALSE),
      Option(<<"8", "T", "B">>, TRUE, SoldOut, TRUE)>>

CompuzoneRows ==
    {Plain(<<>>, TRUE, <<"8", "9", ",", "9", "0", "0", "won">>),
     Plain(IntelCore, TRUE, <<"8", "9", ",", "9", "0", "0", "won">>),
     Plain(AmdRyzen, TRUE, <<>>),
     [name |-> SamsungEvo, price_tag |-> FALSE, price |-> <<>>,
      option_wrap |-> TRUE, options |-> SamsungOptions],
     [name |-> AmdRaijen, price_tag |-> FALSE, price |-> <<>>,
      option_wrap |-> TRUE, options |-> OtherOptions]}

RowsOfSite(site) == IF site = "guidecom" THEN GuidecomRows ELSE CompuzoneRows
BatchesOf(site) == UNION {[1..n -> RowsOfSite(site)] : n \in 0..MaxBatchRows}
BatchLimits == {1, 5}

\* constructor arguments outside a parser
BlankOrNot == {<<>>, <<" ">>, <<" ", " ">>, <<"a">>}

InitRows ==
    /\ row_site \in {"guidecom", "compuzone"}
    /\ batch \in BatchesOf(row_site)
    /\ batch_limit \in BatchLimits
    /\ row_no = 1
    /\ row_products = <<>>
    /\ row_pc = "rows"
    /\ row_returned = <<>>
    /\ ProductIdle
    /\ FanIdle
    /\ ParserIdle
    /\ GroupIdle
    /\ MergeIdle
    /\ BrandIdle
    /\ DedupIdle
    /\ DisplayIdle
    /\ SearchIdle
    /\ SelectIdle
    /\ CapacityIdle
    /\ OptionsIdle
    /\ DebugIdle
    /\ BucketsIdle
    /\ RequestsIdle
    /\ WorkersIdle
    /\ KeywordIdle
    /\ SessionIdle

\* one turn of the loop over the rows: the row's products are appended, and
\* the loop breaks when enough products are there; a row that gives no
\* product is passed over (continue)
ParseNextRow(site) ==
    /\ row_site = site /\ row_pc = "rows" /\ row_no \in DOMAIN batch
    /\ row_products' = Append(row_products, RowProducts(site, batch[row_no]))
    /\ row_no' = row_no + 1
    /\ IF Len(Flatten(row_products')) >= BreakAt(site, batch_limit)
       THEN /\ row_pc' = "done"
            /\ row_returned' = Flatten(row_products')
       ELSE UNCHANGED <<row_pc, row_returned>>
    /\ UNCHANGED <<row_site, batch, batch_limit, notRows>>

\* a variant in which a row that gives no product ends the loop
GcParseNextRowStops ==
    /\ row_site = "guidecom" /\ row_pc = "rows" /\ row_no \in DOMAIN batch
    /\ row_products' = Append(row_products,
                              RowProducts("guidecom", batch[row_no]))
    /\ row_no' = row_no + 1
    /\ IF \/ Len(Flatten(row_products')) >= BreakAt("guidecom", batch_limit)
          \/ RowProducts("guidecom", batch[row_no]) = <<>>
       THEN /\ row_pc' = "done"
            /\ row_returned' = Flatten(row_products')
       ELSE UNCHANGED <<row_pc, row_returned>>
    /\ UNCHANGED <<row_site, batch, batch_limit, notRows>>

\* guidecom.py search_products: for idx, row in enumerate(rows)
GcParseNextRow == ParseNextRow("guidecom")

\* compuzone.py _parse_all_products: for index, item in enumerate(...)
CzParseNextRow == ParseNextRow("compuzone")

\* the end of the loop: return out, return all_products
ReturnRows ==
    /\ row_pc = "rows" /\ row_no > Len(batch)
    /\ row_returned' = Flatten(row_products)
    /\ row_pc' = "done"
    /\ UNCHANGED <<row_site, batch, batch_limit, row_no, row_products, notRows>>

\* Product(...) called with a name and a price, outside a parser
ConstructOutside ==
    /\ row_pc = "done" /\ built = "none"
    /\ \E n \in BlankOrNot, p \in BlankOrNot :
          Constructed([name |-> n, price |-> p, specifications |-> <<>>,
                       product_link |-> <<>>, site |-> <<>>])
    /\ UNCHANGED <<fanVars, parserVars, groupVars, mergeVars, brandVars,
                   dedupVars, displayVars, searchVars, selectVars,
                   capacityVars, optionsVars, debugVars, bucketsVars,
                   requestsVars, workersVars, rowsVars, keywordVars,
                   sessionVars>>

NextRows ==
    \/ GcParseNextRow
    \/ CzParseNextRow
    \/ ReturnRows
    \/ ConstructOutside

SpecRows == InitRows /\ [][NextRows]_vars

\* ---- C27 ----

Blank(text) == text = <<>> \/ \A i \in DOMAIN text : text[i] = " "

\* a construction with a blank name or price raised and left no Product
BlankRejected ==
    (built # "none" /\ (Blank(args.name) \/ Blank(args.price))) =>
        (built = "ValueError" /\ product = NoFields)

\* a row gives no product exactly when it has no name (guidecom), or no
\* name or no option with a price (compuzone)
DroppedRows ==
    {i \in 1..Len(row_products) : row_products[i] = <<>>}

\* every row before the break was parsed, the dropped ones included, and
\* the loop ended by exhaustion or by the limit only
RowsAroundDroppedParsed ==
    /\ row_pc \in {"rows", "done"}
    /\ Len(row_products) = row_no - 1
    /\ \A i \in 1..Len(row_products) :
          /\ row_products[i] = <<>> <=>
                \/ batch[i].name = <<>>
                \/ /\ batch[i].option_wrap
                   /\ \A j \in DOMAIN batch[i].options :
                         \/ ~batch[i].options[j].price_tag
                         \/ /\ DigitsOf(SplitOn(batch[i].options[j].price, <<"~">>)[1]) = <<>>
                            /\ ~batch[i].options[j].sold_out
          /\ (row_products[i] # <<>> /\ ~batch[i].option_wrap) =>
                row_products[i][1].name = batch[i].name
    /\ row_pc = "done" =>
          /\ row_returned = Flatten(row_products)
          /\ \/ row_no > Len(batch)
             \/ Len(row_returned) >= BreakAt(row_site, batch_limit)

CompuzoneRowDropped ==
    /\ row_site = "compuzone" /\ row_pc = "done"
    /\ Len(batch) = 3 /\ batch[2].name = <<>> /\ batch[1].name = IntelCore
    /\ batch[3].name = AmdRyzen
    /\ Len(row_returned) = 2 /\ row_returned[2].price = SoldOut

\* ---- C28 ----

\* the options parsed so far whose price text is a range, with the Product
\* _parse_regular_option returned for each
RangeOptionProducts ==
    UNION {{ParseRegularOption(batch[i].options[j], batch[i].name) :
               j \in {k \in DOMAIN batch[i].options :
                         Contains(batch[i].options[k].price, <<"~">>)}} :
           i \in {k \in 1..Len(row_products) :
                     row_site = "compuzone" /\ batch[k].option_wrap}}

\* C28: for an option whose price text is a range "A~B", the Product that
\* _parse_regular_option returns has the price A in "123,456won" format
\* followed by the suffix "buteo"
C28_RangePriceMarked ==
    \A p \in RangeOptionProducts :
        p # NoFields =>
            /\ EndsWith(p.price, Won \o StartingFrom)
            /\ p \in Range(Flatten(row_products))

\* the Product of the option "146,000won~ 1,416,200won" is among the
\* products of its row, and its price is "146,000won"
RangePriceUnmarked ==
    /\ row_site = "compuzone" /\ row_pc = "done"
    /\ \E i \in DOMAIN row_products : \E j \in DOMAIN row_products[i] :
          /\ batch[i].option_wrap
          /\ batch[i].options[1] = RangeOption
          /\ row_products[i][1].price = <<"1", "4", "6", ",", "0", "0", "0", "won">>


\* ==========================================================================
\* compuzone.py _extract_capacity_from_keyword
\* ==========================================================================

\* (\d+)\s*<unit> matches u from position i on
PatternAt(u, i, unit) ==
    /\ i \in DOMAIN u
    /\ IsDigit(u[i])
    /\ UnitAt(u, i + DigitRunLen(u, i)
                   + SpaceRunLen(u, i + DigitRunLen(u, i))) = unit

\* re.search(r'(\d+)\s*<unit>', u): <<>> for None, else group(1) of the
\* leftmost match
SearchPattern(u, unit) ==
    IF \A i \in DOMAIN u : ~PatternAt(u, i, unit) THEN <<>>
    ELSE LET i == CHOOSE k \in DOMAIN u :
                     PatternAt(u, k, unit)
                     /\ \A j \in 1..(k - 1) : ~PatternAt(u, j, unit)
         IN SubSeq(u, i, i + DigitRunLen(u, i) - 1)

\* r'(\d+)\s*TB', r'(\d+)\s*GB', r'(\d+)\s*MB', by their units
capacity_patterns == <<<<"T", "B">>, <<"G", "B">>, <<"M", "B">>>>

\* the body of the loop for a pattern that matched: the unit is the first
\* of TB, GB, MB that occurs in keyword_upper
NumberWithUnit(number, keyword_upper) ==
    IF Contains(keyword_upper, <<"T", "B">>) THEN number \o <<"T", "B">>
    ELSE IF Contains(keyword_upper, <<"G", "B">>) THEN number \o <<"G", "B">>
    ELSE IF Contains(keyword_upper, <<"M", "B">>) THEN number \o <<"M", "B">>
    ELSE <<>>

\* the loop over capacity_patterns from pattern k on
RECURSIVE ExtractFrom(_, _)
ExtractFrom(keyword_upper, k) ==
    IF k > Len(capacity_patterns) THEN <<>>
    ELSE LET number == SearchPattern(keyword_upper, capacity_patterns[k])
         IN IF number # <<>> /\ NumberWithUnit(number, keyword_upper) # <<>>
            THEN NumberWithUnit(number, keyword_upper)
            ELSE ExtractFrom(keyword_upper, k + 1)

\* compuzone.py _extract_capacity_from_keyword
ExtractCapacityFromKeyword(kw) == ExtractFrom(Upper(kw), 1)

\* ---- inputs ----
\* keywords: words before, a capacity token or none, words after
KeywordHeads == {<<>>, <<"s", "s", "d", " ">>, <<"s", "m", "a", "r", "t", "b", "u", "y", " ">>, <<"T", "B", "3", " ", "d", "o", "c", "k", " ">>, <<"sam", "seong", " ">>}
KeywordTokens == {<<>>, <<"1", "t", "b">>, <<"5", "1", "2", "g", "b">>, <<"5", "0", "0", " ", "G", "B">>, <<"6", "4", "M", "B">>, <<"2", "T", "B">>}
KeywordTails == {<<>>, <<" ", "2", "t", "b">>, <<" ", "g", "b">>, <<" ", "n", "v", "m", "e">>}
KeywordTexts ==
    {Strip(h \o t \o l) : h \in KeywordHeads, t \in KeywordTokens,
                          l \in KeywordTails}

InitKeyword ==
    /\ kw_text \in KeywordTexts
    /\ kw_capacity = <<>>
    /\ kwPc = "call"
    /\ ProductIdle
    /\ FanIdle
    /\ ParserIdle
    /\ GroupIdle
    /\ MergeIdle
    /\ BrandIdle
    /\ DedupIdle
    /\ DisplayIdle
    /\ SearchIdle
    /\ SelectIdle
    /\ CapacityIdle
    /\ OptionsIdle
    /\ DebugIdle
    /\ BucketsIdle
    /\ RequestsIdle
    /\ WorkersIdle
    /\ RowsIdle
    /\ SessionIdle

\* capacity_filter = self._extract_capacity_from_keyword(keyword)
ExtractCapacityOfKeyword ==
    /\ kwPc = "call"
    /\ kw_capacity' = ExtractCapacityFromKeyword(kw_text)
    /\ kwPc' = "done"
    /\ UNCHANGED <<kw_text, notKeyword>>

NextKeyword == ExtractCapacityOfKeyword

SpecKeyword == InitKeyword /\ [][NextKeyword]_vars

\* ---- C29 ----

\* the capacity tokens of a keyword: a whole run of digits, optional
\* whitespace and a unit, written as number and unit together
CapacityTokens(kw) ==
    LET u == Upper(kw)
    IN {CapacityGroups(u, i)[1] \o CapacityGroups(u, i)[2] :
           i \in {k \in DOMAIN u :
                     CapacityAt(u, k) /\ (k = 1 \/ ~IsDigit(u[k - 1]))}}

\* C29: the capacity filter extracted from a keyword is the number together
\* with the unit of one and the same capacity token of the keyword, and
\* None when the keyword has no capacity token
C29_NumberWithItsUnit ==
    kwPc = "done" =>
        IF CapacityTokens(kw_text) = {} THEN kw_capacity = <<>>
        ELSE kw_capacity \in CapacityTokens(kw_text)

\* "smartbuy 512gb": the number of the GB token with TB, which occurs in
\* the brand name only
NumberWithForeignUnit ==
    /\ kwPc = "done"
    /\ kw_text = <<"s", "m", "a", "r", "t", "b", "u", "y", " ">> \o <<"5", "1", "2", "g", "b">>
    /\ kw_capacity = <<"5", "1", "2", "T", "B">>

\* keywords whose units all belong to capacity tokens of one unit get the
\* leftmost token of that unit, and keywords without token get None
OneUnitKeywords ==
    (kwPc = "done" /\ kw_text \in {<<"s", "s", "d", " ">> \o <<"5", "1", "2", "g", "b">>, <<"s", "s", "d", " ">> \o <<"5", "0", "0", " ", "G", "B">>, <<"s", "s", "d", " ">>}) =>
        kw_capacity = IF kw_text = <<"s", "s", "d", " ">> THEN <<>>
                      ELSE IF kw_text = <<"s", "s", "d", " ">> \o <<"5", "1", "2", "g", "b">>
                           THEN <<"5", "1", "2", "G", "B">>
                           ELSE <<"5", "0", "0", "G", "B">>


\* ==========================================================================
\* app.py: the session state over the script runs of one session
\* ==========================================================================

\* session_defaults
session_defaults ==
    [keyword |-> "", manufacturers |-> 0, products |-> 0,
     searching_products |-> FALSE]

\* ---- inputs ----
MaxManufacturers == 2
MaxFound == 2
MaxInterrupts == 1
KeywordInputs == {"", "ssd"}

\* the widgets of the page the user can act on: the search form always, the
\* select-all button and the manufacturer form when they were rendered
Widgets == {"search_button", "toggle_button", "product_search_button"}
OnPage(w) == w = "search_button" \/ form_shown

\* a script run starts with searching_products as the session state holds
\* it: initialize_session_state keeps what is there
RunStarts(event, searching) ==
    /\ run_pc' = "section1"
    /\ run_event' = event
    /\ run_started' = searching
    /\ site_queries' = 0
    /\ submitted_empty' = FALSE
    /\ waiting' = "none"

InitSession ==
    /\ ss = session_defaults
    /\ ticked = {}
    /\ run_pc = "section1"
    /\ run_event = "none"
    /\ run_started = FALSE
    /\ form_shown = FALSE
    /\ site_queries = 0
    /\ submitted_empty = FALSE
    /\ waiting = "none"
    /\ interrupts = 0
    /\ ProductIdle
    /\ FanIdle
    /\ ParserIdle
    /\ GroupIdle
    /\ MergeIdle
    /\ BrandIdle
    /\ DedupIdle
    /\ DisplayIdle
    /\ SearchIdle
    /\ SelectIdle
    /\ CapacityIdle
    /\ OptionsIdle
    /\ DebugIdle
    /\ BucketsIdle
    /\ RequestsIdle
    /\ WorkersIdle
    /\ RowsIdle
    /\ KeywordIdle

\* the user ticks or unticks a checkbox of the form; no run starts
TickCheckbox ==
    /\ run_pc = "idle" /\ form_shown
    /\ \E i \in 1..ss.manufacturers :
          ticked' = IF i \in ticked THEN ticked \ {i} ELSE ticked \cup {i}
    /\ UNCHANGED <<ss, run_pc, run_event, run_started, form_shown,
                   site_queries, submitted_empty, waiting, interrupts,
                   notSession>>

\* the user presses a button of the page: a script run starts
UserActs ==
    /\ run_pc = "idle"
    /\ \E w \in Widgets : OnPage(w) /\ RunStarts(w, ss.searching_products)
    /\ UNCHANGED <<ss, ticked, form_shown, interrupts, notSession>>

\* the user presses a button while the product search is running: the
\* rerun is requested, and the running script goes on to its next
\* Streamlit call
UserActsDuringSearch ==
    /\ run_pc = "searching" /\ waiting = "none"
    /\ interrupts < MaxInterrupts
    /\ \E w \in Widgets : OnPage(w) /\ waiting' = w
    /\ UNCHANGED <<ss, ticked, run_pc, run_event, run_started, form_shown,
                   site_queries, submitted_empty, interrupts, notSession>>

\* section 1: the search form and the manufacturer search
ManufacturerSearch ==
    /\ run_pc = "section1"
    /\ IF run_event = "search_button"
       THEN \E k \in KeywordInputs, n \in 0..MaxManufacturers :
               /\ ss' = [ss EXCEPT !.keyword = k, !.products = 0,
                                   !.manufacturers = IF k = "" THEN 0 ELSE n]
               /\ ticked' = IF k = "" THEN {} ELSE ticked \cap (1..n)
       ELSE UNCHANGED <<ss, ticked>>
    /\ run_pc' = "section2"
    /\ UNCHANGED <<run_event, run_started, form_shown, site_queries,
                   submitted_empty, waiting, interrupts, notSession>>

\* section 2 while searching_products is set, or without manufacturers:
\* the form is not rendered, and the state of its checkboxes is dropped
NoForm ==
    /\ run_pc = "section2"
    /\ ss.searching_products \/ ss.manufacturers = 0
    /\ form_shown' = FALSE
    /\ ticked' = {}
    /\ run_pc' = "section3"
    /\ UNCHANGED <<ss, run_event, run_started, site_queries,
                   submitted_empty, waiting, interrupts, notSession>>

\* section 2, toggle_button: all checkboxes are set or cleared, st.rerun()
ToggleRerun ==
    /\ run_pc = "section2"
    /\ ~ss.searching_products /\ ss.manufacturers > 0
    /\ run_event = "toggle_button"
    /\ ticked' = IF ticked = 1..ss.manufacturers THEN {}
                 ELSE 1..ss.manufacturers
    /\ RunStarts("rerun", ss.searching_products)
    /\ UNCHANGED <<ss, form_shown, interrupts, notSession>>

\* section 2, the form without a submit
FormShown ==
    /\ run_pc = "section2"
    /\ ~ss.searching_products /\ ss.manufacturers > 0
    /\ run_event \notin {"toggle_button", "product_search_button"}
    /\ form_shown' = TRUE
    /\ run_pc' = "section3"
    /\ UNCHANGED <<ss, ticked, run_event, run_started, site_queries,
                   submitted_empty, waiting, interrupts, notSession>>

\* section 2, product_search_button: the flag is set and products cleared;
\* without a selected code the flag is reset and the user warned, else the
\* two workers are started
ProductSearchSubmitted ==
    /\ run_pc = "section2"
    /\ ~ss.searching_products /\ ss.manufacturers > 0
    /\ run_event = "product_search_button"
    /\ form_shown' = TRUE
    /\ IF ticked = {}
       THEN /\ ss' = [ss EXCEPT !.products = 0, !.searching_products = FALSE]
            /\ submitted_empty' = TRUE
            /\ run_pc' = "section3"
            /\ UNCHANGED site_queries
       ELSE /\ ss' = [ss EXCEPT !.products = 0, !.searching_products = TRUE]
            /\ site_queries' = 2
            /\ run_pc' = "searching"
            /\ UNCHANGED submitted_empty
    /\ UNCHANGED <<ticked, run_event, run_started, waiting, interrupts,
                   notSession>>

\* the product search ends with results, without results or with an error
\* (products = []); the flag is reset and st.rerun() starts the next run
ProductSearchEnds ==
    /\ run_pc = "searching" /\ waiting = "none"
    /\ \E n \in 0..MaxFound :
          ss' = [ss EXCEPT !.products = n, !.searching_products = FALSE]
    /\ RunStarts("rerun", FALSE)
    /\ UNCHANGED <<ticked, form_shown, interrupts, notSession>>

\* the product search ends while a rerun request waits: the message that
\* reports the outcome is the next Streamlit call, the run is stopped there
\* by the exception that carries the rerun, which is no Exception and
\* passes the handler, and the requested run starts
ProductSearchInterrupted ==
    /\ run_pc = "searching" /\ waiting # "none"
    /\ \E n \in 0..MaxFound : ss' = [ss EXCEPT !.products = n]
    /\ RunStarts(waiting, ss.searching_products)
    /\ interrupts' = interrupts + 1
    /\ UNCHANGED <<ticked, form_shown, notSession>>

\* section 3: the results are displayed and the run ends
DisplayResults ==
    /\ run_pc = "section3"
    /\ run_pc' = "idle"
    /\ UNCHANGED <<ss, ticked, run_event, run_started, form_shown,
                   site_queries, submitted_empty, waiting, interrupts,
                   notSession>>

NextSession ==
    \/ TickCheckbox
    \/ UserActs
    \/ UserActsDuringSearch
    \/ ManufacturerSearch
    \/ NoForm
    \/ ToggleRerun
    \/ FormShown
    \/ ProductSearchSubmitted
    \/ ProductSearchEnds
    \/ ProductSearchInterrupted
    \/ DisplayResults

SpecSession == InitSession /\ [][NextSession]_vars

\* ---- C30 ----

\* a submit with nothing ticked issues no query, leaves products empty and
\* the flag reset
EmptySubmitHarmless ==
    submitted_empty =>
        (site_queries = 0 /\ ss.products = 0 /\ ~ss.searching_products)

\* the flag is set only while the workers of a product search run
FlagOnlyWhileSearching == ss.searching_products => run_pc = "searching"

\* no script run has started with the flag set
NoRunStartsSearching == ~run_started

\* C30: searching_products is True only while a product search is in
\* progress: a submit with no manufacturer checked issues no site query,
\* leaves products empty and resets the flag, and after every product
\* search that was started the flag is False before the next rerun, so that
\* no script run starts with searching_products True
C30_FlagOnlyDuringSearch ==
    /\ EmptySubmitHarmless
    /\ FlagOnlyWhileSearching
    /\ NoRunStartsSearching

\* as long as no run was stopped by a rerun request the statement holds
FlagOnlyDuringSearchUninterrupted ==
    interrupts = 0 => C30_FlagOnlyDuringSearch

\* after an interrupted product search the flag stays set whatever the user
\* does: a new manufacturer search has run and the form is not on the page
FlagStuck ==
    /\ interrupts > 0 /\ run_pc = "idle" /\ run_event = "search_button"
    /\ ss.searching_products /\ ss.manufacturers > 0 /\ ~form_shown

\* once set by an interrupted search the flag is never reset
FlagNeverResetAfterInterrupt ==
    [][(interrupts > 0 /\ ss.searching_products) => ss.searching_products']_vars

====
